---- MODULE Spec2Model ----
(***************************************************************************)
(* A model of justhtml: the HTML5 tree builder (treebuilder.py,            *)
(* treebuilder_modes.py), the part of the tokenizer that feeds it          *)
(* (tokenizer.py), the parser front end that merges their error lists      *)
(* (parser.py) and the encoding sniffer (encoding.py).                     *)
(*                                                                         *)
(* The Python objects are records; a method that mutates self is an        *)
(* operator from the object's record to its new record.  DOM nodes live    *)
(* in an arena (s.nodes), a node is its index in the arena, None is 0.     *)
(***************************************************************************)
EXTENDS Integers, Sequences, FiniteSets, TLC

(* ---------------------------------------------------------------------- *)
(* Bounds of the exploration                                               *)
(* ---------------------------------------------------------------------- *)

\* longest token sequence fed to the tree builder before finish()
MaxTokens == 5

\* most pieces a generated document is put together from
MaxPieces == 3

(* ---------------------------------------------------------------------- *)
(* constants.py (values of the HTML Standard, restricted to no tag name    *)
(* outside the standard's lists)                                           *)
(* ---------------------------------------------------------------------- *)

None == 0

FORMAT_MARKER == [name |-> "#marker", node |-> None]

FORMATTING_ELEMENTS ==
  {"a", "b", "big", "code", "em", "font", "i", "nobr", "s", "small", "strike", "strong", "tt", "u"}

SPECIAL_ELEMENTS ==
  {"address", "applet", "area", "article", "aside", "base", "basefont",
   "bgsound", "blockquote", "body", "br", "button", "caption", "center",
   "col", "colgroup", "dd", "details", "dialog", "dir", "div", "dl", "dt",
   "embed", "fieldset", "figcaption", "figure", "footer", "form", "frame",
   "frameset", "h1", "h2", "h3", "h4", "h5", "h6", "head", "header",
   "hgroup", "hr", "html", "iframe", "img", "input", "keygen", "li", "link",
   "listing", "main", "marquee", "menu", "meta", "nav", "noembed",
   "noframes", "noscript", "object", "ol", "p", "param", "plaintext", "pre",
   "script", "search", "section", "select", "source", "style", "summary",
   "table", "tbody", "td", "template", "textarea", "tfoot", "th", "thead",
   "title", "tr", "track", "ul", "wbr", "xmp"}

DEFAULT_SCOPE_TERMINATORS ==
  {"applet", "caption", "html", "table", "td", "th", "marquee", "object", "template"}

BUTTON_SCOPE_TERMINATORS == DEFAULT_SCOPE_TERMINATORS \cup {"button"}

TABLE_SCOPE_TERMINATORS == {"html", "table", "template"}

IMPLIED_END_TAGS == {"dd", "dt", "li", "optgroup", "option", "p", "rb", "rp", "rt", "rtc"}

TABLE_FOSTER_TARGETS == {"table", "tbody", "tfoot", "thead", "tr"}

FOREIGN_BREAKOUT_ELEMENTS ==
  {"b", "big", "blockquote", "body", "br", "center", "code", "dd", "div", "dl", "dt",
   "em", "embed", "h1", "h2", "h3", "h4", "h5", "h6", "head", "hr", "i", "img", "li",
   "listing", "menu", "meta", "nobr", "ol", "p", "pre", "ruby", "s", "small", "span",
   "strike", "strong", "sub", "sup", "table", "tt", "u", "ul", "var"}

\* (namespace, name) pairs
HTML_INTEGRATION_POINT_SET == {<<"svg", "foreignObject">>, <<"svg", "desc">>, <<"svg", "title">>}

MATHML_TEXT_INTEGRATION_POINT_SET ==
  {<<"math", "mi">>, <<"math", "mo">>, <<"math", "mn">>, <<"math", "ms">>, <<"math", "mtext">>}

\* lower-case name -> the camel-case name of the svg element
SVG_TAG_NAME_ADJUSTMENTS == [foreignobject |-> "foreignObject"]

\* value.lower() of an element name: the names with an upper-case letter are
\* the adjusted svg names
_lower_ascii(value) ==
  IF \E k \in DOMAIN SVG_TAG_NAME_ADJUSTMENTS : SVG_TAG_NAME_ADJUSTMENTS[k] = value
  THEN CHOOSE k \in DOMAIN SVG_TAG_NAME_ADJUSTMENTS : SVG_TAG_NAME_ADJUSTMENTS[k] = value
  ELSE value

\* the tokenizer has lower-cased the names of the tags
_adjust_svg_tag_name(name) ==
  IF name \in DOMAIN SVG_TAG_NAME_ADJUSTMENTS THEN SVG_TAG_NAME_ADJUSTMENTS[name] ELSE name

(* ---------------------------------------------------------------------- *)
(* Sequences (Python list operations)                                      *)
(* ---------------------------------------------------------------------- *)

\* list.index(x): 1-based position of the first x, 0 when x is absent
IndexOf(seq, x) ==
  IF \E i \in 1..Len(seq) : seq[i] = x
  THEN CHOOSE i \in 1..Len(seq) : seq[i] = x /\ \A j \in 1..(i - 1) : seq[j] # x
  ELSE 0

\* the list without its element at position i
RemoveAt(seq, i) == [j \in 1..(Len(seq) - 1) |-> IF j < i THEN seq[j] ELSE seq[j + 1]]

\* list.insert(i - 1, x): x lands at 1-based position i
InsertAt(seq, i, x) ==
  [j \in 1..(Len(seq) + 1) |-> IF j < i THEN seq[j] ELSE IF j = i THEN x ELSE seq[j - 1]]

\* seq[:n]
Prefix(seq, n) == [j \in 1..n |-> seq[j]]

\* list.pop() result / remainder
Last(seq) == seq[Len(seq)]
Front(seq) == Prefix(seq, Len(seq) - 1)

(* ---------------------------------------------------------------------- *)
(* node.py                                                                 *)
(* ---------------------------------------------------------------------- *)

\* SimpleDomNode / ElementNode / TextNode / TemplateNode as one record shape
Node(name, namespace, data, template_content) ==
  [name |-> name, namespace |-> namespace, parent |-> None, children |-> <<>>,
   data |-> data, template_content |-> template_content]

\* allocate a node; its handle is Len(s.nodes) afterwards
NewNode(s, rec) == [s EXCEPT !.nodes = Append(@, rec)]

NewId(s) == Len(s.nodes)

\* an exception that escapes the parser; the first one is kept
Raise(s, what) == IF s.exc = "" THEN [s EXCEPT !.exc = what] ELSE s

\* list.pop() on open_elements / template_modes: IndexError when empty
_pop_current(s) ==
  IF s.open_elements = <<>> THEN Raise(s, "IndexError")
  ELSE [s EXCEPT !.open_elements = Front(@)]

PopTemplateMode(s) ==
  IF s.template_modes = <<>> THEN Raise(s, "IndexError")
  ELSE [s EXCEPT !.template_modes = Front(@)]

\* self.method(*arg), resolved by name at run time (defined after the methods)
RECURSIVE Call(_, _, _)

\* SimpleDomNode.append_child: no detaching from a previous parent
append_child(s, parent, node) ==
  [s EXCEPT !.nodes[parent].children = Append(@, node), !.nodes[node].parent = parent]

\* fault injection: remove_child that clears node.parent and forgets children.remove
remove_child_keeps_entry(s, parent, node) ==
  [s EXCEPT !.nodes[node].parent = None]

\* SimpleDomNode.remove_child: list.remove raises ValueError when absent
remove_child(s, parent, node) ==
  LET i == IndexOf(s.nodes[parent].children, node) IN
  IF i = 0 THEN Raise(s, "ValueError")
  ELSE [s EXCEPT !.nodes[parent].children = RemoveAt(@, i), !.nodes[node].parent = None]

\* SimpleDomNode.insert_before
insert_before(s, parent, node, reference_node) ==
  IF reference_node = None THEN Call("append_child", s, <<parent, node>>)
  ELSE LET i == IndexOf(s.nodes[parent].children, reference_node) IN
       IF i = 0 THEN Raise(s, "ValueError")
       ELSE [s EXCEPT !.nodes[parent].children = InsertAt(@, i, node),
                      !.nodes[node].parent = parent]

(* ---------------------------------------------------------------------- *)
(* treebuilder.py: TreeBuilder helpers.  s is the TreeBuilder object.      *)
(* ---------------------------------------------------------------------- *)

\* text is a sequence of one-character strings
WHITESPACE == {" ", "\t", "\n", "\f", "\r"}

is_all_whitespace(text) == \A i \in 1..Len(text) : text[i] \in WHITESPACE

NameOf(s, node) == s.nodes[node].name

IsTemplateNode(s, node) == s.nodes[node].template_content # None

\* errors are kept with the rank at which they were recorded among all the
\* errors of the parse (s.recorded counts the tokenizer's errors as well)
_parse_error(s, code) ==
  IF ~s.collect_errors THEN s
  ELSE [s EXCEPT !.errors = Append(@, [code |-> code, order |-> s.recorded + 1]),
                 !.recorded = @ + 1]

IsHtmlNamespace(s, node) == s.nodes[node].namespace = "html"

\* nodes carry no attributes, so an annotation-xml element has no encoding
_is_html_integration_point(s, node) ==
  IF s.nodes[node].namespace = "math" /\ s.nodes[node].name = "annotation-xml" THEN FALSE
  ELSE <<s.nodes[node].namespace, s.nodes[node].name>> \in HTML_INTEGRATION_POINT_SET

_is_mathml_text_integration_point(s, node) ==
  /\ s.nodes[node].namespace = "math"
  /\ <<s.nodes[node].namespace, s.nodes[node].name>> \in MATHML_TEXT_INTEGRATION_POINT_SET

\* the walk down the stack stops at the first node that bears the name, is
\* an html terminator, or (check_integration_points) an integration point
_has_element_in_scope(s, target, terminators, check_integration_points) ==
  LET stops(node) ==
        \/ NameOf(s, node) = target
        \/ IsHtmlNamespace(s, node) /\ NameOf(s, node) \in terminators
        \/ /\ ~IsHtmlNamespace(s, node) /\ check_integration_points
           /\ (_is_html_integration_point(s, node) \/ _is_mathml_text_integration_point(s, node))
      hits == {i \in 1..Len(s.open_elements) : stops(s.open_elements[i])}
  IN  hits # {} /\
      LET top == CHOOSE i \in hits : \A j \in hits : j <= i
      IN  NameOf(s, s.open_elements[top]) = target

_has_element_in_button_scope(s, target) == Call("_has_element_in_scope", s, <<target, BUTTON_SCOPE_TERMINATORS, TRUE>>)

_has_in_table_scope(s, name) == Call("_has_element_in_scope", s, <<name, TABLE_SCOPE_TERMINATORS, FALSE>>)

\* position on the stack of the last element whose name is in names, 0 if none
LastNamed(s, names) ==
  LET hits == {i \in 1..Len(s.open_elements) : NameOf(s, s.open_elements[i]) \in names}
  IN  IF hits = {} THEN 0 ELSE CHOOSE i \in hits : \A j \in hits : j <= i

\* pops through the last element named in names (the whole stack if none)
_pop_until_any_inclusive(s, names) ==
  [s EXCEPT !.open_elements = Prefix(@, IF LastNamed(s, names) = 0 THEN 0 ELSE LastNamed(s, names) - 1)]

_pop_until_inclusive(s, name) == Call("_pop_until_any_inclusive", s, {name})

\* position on the stack of the last html element whose name is in names, 0 if none
LastHtmlNamed(s, names) ==
  LET hits == {i \in 1..Len(s.open_elements) :
                 /\ NameOf(s, s.open_elements[i]) \in names
                 /\ IsHtmlNamespace(s, s.open_elements[i])}
  IN  IF hits = {} THEN 0 ELSE CHOOSE i \in hits : \A j \in hits : j <= i

\* pops while the current node is not an html element named in names
_clear_stack_until(s, names) == [s EXCEPT !.open_elements = Prefix(@, LastHtmlNamed(s, names))]

_generate_implied_end_tags(s, exclude) ==
  LET keep == {i \in 1..Len(s.open_elements) :
                 NameOf(s, s.open_elements[i]) \notin (IMPLIED_END_TAGS \ {exclude})}
  IN  [s EXCEPT !.open_elements =
         Prefix(@, IF keep = {} THEN 0 ELSE CHOOSE i \in keep : \A j \in keep : j <= i)]

_close_p_element(s) ==
  LET checked(s1) == IF NameOf(s1, Last(s1.open_elements)) # "p"
                     THEN Call("_parse_error", s1, "end-tag-too-early") ELSE s1
  IN  IF _has_element_in_button_scope(s, "p")
      THEN Call("_pop_until_inclusive", checked(Call("_generate_implied_end_tags", s, "p")), "p")
      ELSE s

_find_last_on_stack(s, name) ==
  IF LastNamed(s, {name}) = 0 THEN None ELSE s.open_elements[LastNamed(s, {name})]

_current_node_or_html(s) ==
  IF s.open_elements # <<>> THEN Last(s.open_elements)
  ELSE LET kids == s.nodes[s.document].children
           htmls == {i \in 1..Len(kids) : NameOf(s, kids[i]) = "html"}
       IN  IF htmls # {} THEN kids[CHOOSE i \in htmls : \A j \in htmls : i <= j]
           ELSE IF kids # <<>> THEN kids[1] ELSE None

TABLE_ALLOWED_CHILDREN ==
  {"caption", "colgroup", "tbody", "tfoot", "thead", "tr", "td", "th", "script", "template", "style"}

\* for_tag is "" for text (is_text=True)
_should_foster_parenting(s, target, for_tag, is_text) ==
  IF ~s.insert_from_table THEN FALSE
  ELSE IF NameOf(s, target) \notin TABLE_FOSTER_TARGETS THEN FALSE
  ELSE IF is_text THEN TRUE
  ELSE for_tag \notin TABLE_ALLOWED_CHILDREN

\* _appropriate_insertion_location without the content fragment of a template
\* and without foster parenting
_insertion_location_in_target(s, override_target, foster_parenting) ==
  LET target == IF override_target # None THEN override_target
                ELSE Call("_current_node_or_html", s, <<>>)
  IN  [parent |-> target, position |-> Len(s.nodes[target].children)]

\* (parent, position), position counted from 0 as in the source
_appropriate_insertion_location(s, override_target, foster_parenting) ==
  LET target == IF override_target # None THEN override_target ELSE Call("_current_node_or_html", s, <<>>)
      last_template == LastNamed(s, {"template"})
      last_table == LastNamed(s, {"table"})
      here(n) == [parent |-> n, position |-> Len(s.nodes[n].children)]
  IN  IF foster_parenting /\ NameOf(s, target) \in {"table", "tbody", "tfoot", "thead", "tr"}
      THEN IF last_template # 0 /\ (last_table = 0 \/ last_template > last_table)
           THEN here(s.nodes[s.open_elements[last_template]].template_content)
           ELSE IF last_table = 0 THEN here(target)
           ELSE LET table == s.open_elements[last_table]
                    parent == s.nodes[table].parent
                IN  IF parent = None THEN here(target)
                    ELSE [parent |-> parent,
                          position |-> IndexOf(s.nodes[parent].children, table) - 1]
      ELSE IF IsTemplateNode(s, target) THEN here(s.nodes[target].template_content)
      ELSE here(target)

_insert_node_at(s, parent, index, node) ==
  Call("insert_before", s, <<parent, node, IF index < Len(s.nodes[parent].children)
                THEN s.nodes[parent].children[index + 1] ELSE None>>)

\* _insert_element(tag, push=push, namespace=namespace); the new element is
\* the last node allocated: NewId of the result
_insert_element_in(s, name, push, namespace) ==
  LET at(s0, node, loc) == Call("_insert_node_at", s0, <<loc.parent, loc.position, node>>)
      under(s0, node, parent) == IF parent # None THEN Call("append_child", s0, <<parent, node>>) ELSE s0
      place(s0, node, target) ==
        IF ~s0.insert_from_table
        THEN under(s0, node, IF target # None /\ IsTemplateNode(s0, target)
                             THEN s0.nodes[target].template_content ELSE target)
        ELSE at(s0, node, Call("_appropriate_insertion_location", s0, <<None, _should_foster_parenting(s0, target, name, FALSE)>>))
      pushed(s1, node) == IF push THEN [s1 EXCEPT !.open_elements = Append(@, node)] ELSE s1
      created(s0) == pushed(place(s0, NewId(s0), Call("_current_node_or_html", s0, <<>>)), NewId(s0))
  IN  created(IF name = "template" /\ namespace = "html"
              THEN NewNode(NewNode(s, Node("#document-fragment", "html", <<>>, None)),
                           Node(name, namespace, <<>>, Len(s.nodes) + 1))
              ELSE NewNode(s, Node(name, namespace, <<>>, None)))

\* _insert_element with the default namespace
_insert_element(s, name, push) == Call("_insert_element_in", s, <<name, push, "html">>)

_insert_phantom(s, name) == Call("_insert_element", s, <<name, TRUE>>)

_create_root(s) ==
  LET rooted(s0) ==
        [Call("append_child", s0, <<s0.document, NewId(s0)>>) EXCEPT !.open_elements = Append(@, NewId(s0))]
  IN  rooted(NewNode(s, Node("html", "html", <<>>, None)))

_insert_body_if_missing(s) ==
  LET inserted(s0, html_node) ==
        [(IF html_node # None THEN Call("append_child", s0, <<html_node, NewId(s0)>>) ELSE s0)
           EXCEPT !.open_elements = Append(@, NewId(s0))]
  IN  inserted(NewNode(s, Node("body", "html", <<>>, None)), _find_last_on_stack(s, "html"))

_append_comment(s, text, parent) ==
  LET into(s0, p0) ==
        Call("append_child", s0, <<IF IsTemplateNode(s, p0) THEN s.nodes[p0].template_content ELSE p0, NewId(s0)>>)
  IN  into(NewNode(s, Node("#comment", "html", text, None)),
           IF parent = None THEN Call("_current_node_or_html", s, <<>>) ELSE parent)

_append_comment_to_document(s, text) == Call("_append_comment", s, <<text, s.document>>)

\* active formatting entries are [name, node]; no tag carries attributes
_find_active_formatting_index(s, name) ==
  LET af == s.active_formatting
      stop == {i \in 1..Len(af) : af[i] = FORMAT_MARKER \/ af[i].name = name}
      top == CHOOSE i \in stop : \A j \in stop : j <= i
  IN  IF stop # {} /\ af[top] # FORMAT_MARKER THEN top ELSE 0

_find_active_formatting_index_by_node(s, node) ==
  LET af == s.active_formatting
      hits == {i \in 1..Len(af) : af[i] # FORMAT_MARKER /\ af[i].node = node}
  IN  IF hits = {} THEN 0 ELSE CHOOSE i \in hits : \A j \in hits : j <= i

\* Noah's Ark: position of the earliest of three or more equal entries after the last marker
_find_active_formatting_duplicate(s, name) ==
  LET af == s.active_formatting
      markers == {i \in 1..Len(af) : af[i] = FORMAT_MARKER}
      from == IF markers = {} THEN 0 ELSE CHOOSE i \in markers : \A j \in markers : j <= i
      matches == {i \in (from + 1)..Len(af) : af[i].name = name}
  IN  IF Cardinality(matches) >= 3 THEN CHOOSE i \in matches : \A j \in matches : i <= j ELSE 0

_has_active_formatting_entry(s, name) == _find_active_formatting_index(s, name) # 0

_remove_formatting_entry(s, index) == [s EXCEPT !.active_formatting = RemoveAt(@, index)]

_remove_last_active_formatting_by_name(s, name) ==
  IF _find_active_formatting_index(s, name) = 0 THEN s
  ELSE _remove_formatting_entry(s, _find_active_formatting_index(s, name))

_remove_last_open_element_by_name(s, name) ==
  IF LastNamed(s, {name}) = 0 THEN s
  ELSE [s EXCEPT !.open_elements = RemoveAt(@, LastNamed(s, {name}))]

_remove_from_open_elements(s, node) ==
  IF IndexOf(s.open_elements, node) = 0 THEN s
  ELSE [s EXCEPT !.open_elements = RemoveAt(@, IndexOf(s.open_elements, node))]

_append_active_formatting_entry(s, name, node) ==
  [s EXCEPT !.active_formatting = Append(@, [name |-> name, node |-> node])]

_push_formatting_marker(s) == [s EXCEPT !.active_formatting = Append(@, FORMAT_MARKER)]

_clear_active_formatting_up_to_marker(s) ==
  LET af == s.active_formatting
      markers == {i \in 1..Len(af) : af[i] = FORMAT_MARKER}
  IN  [s EXCEPT !.active_formatting =
         Prefix(@, IF markers = {} THEN 0 ELSE (CHOOSE i \in markers : \A j \in markers : j <= i) - 1)]

InOpenElements(s, node) == \E i \in 1..Len(s.open_elements) : s.open_elements[i] = node

RECURSIVE ReconstructFrom(_, _)
\* the second loop of _reconstruct_active_formatting_elements
ReconstructFrom(s, index) ==
  IF index > Len(s.active_formatting) THEN s
  ELSE LET relinked(s1) == [s1 EXCEPT !.active_formatting[index].node = NewId(s1)]
       IN  ReconstructFrom(relinked(Call("_insert_element", s, <<s.active_formatting[index].name, TRUE>>)),
                           index + 1)

\* reconstruction without the walk back: the last entry only
ReconstructLast(s) ==
  LET af == s.active_formatting
  IN  IF af = <<>> THEN s
      ELSE IF af[Len(af)] = FORMAT_MARKER \/ InOpenElements(s, af[Len(af)].node) THEN s
      ELSE ReconstructFrom(s, Len(af))

_reconstruct_active_formatting_elements(s) ==
  LET af == s.active_formatting
      settled(i) == af[i] = FORMAT_MARKER \/ InOpenElements(s, af[i].node)
      stops == {i \in 1..(Len(af) - 1) : settled(i)}
  IN  IF af = <<>> THEN s
      ELSE IF settled(Len(af)) THEN s
      ELSE ReconstructFrom(s, IF stops = {} THEN 1
                              ELSE (CHOOSE i \in stops : \A j \in stops : j <= i) + 1)

_append_text(s, text0) ==
  LET strip == s.ignore_lf /\ text0 # <<>> /\ text0[1] = "\n"
      text == IF strip THEN Tail(text0) ELSE text0
      appended(s1, target) ==
        [s1 EXCEPT !.nodes[target].children = Append(@, NewId(s1)),
                   !.nodes[NewId(s1)].parent = target]
      \* fast path: the last child is a text node, or a new text node is appended
      fast(s0, target, kids) ==
        IF kids # <<>> /\ NameOf(s0, Last(kids)) = "#text"
        THEN [s0 EXCEPT !.nodes[Last(kids)].data = @ \o text]
        ELSE appended(NewNode(s0, Node("#text", "", text, None)), target)
      fresh(s2, parent, reference) == Call("insert_before", s2, <<parent, NewId(s2), reference>>)
      merged(s1, loc, sibs) ==
        IF loc.position > 0 /\ NameOf(s1, sibs[loc.position]) = "#text"
        THEN [s1 EXCEPT !.nodes[sibs[loc.position]].data = @ \o text]
        ELSE fresh(NewNode(s1, Node("#text", "", text, None)), loc.parent,
                   IF loc.position < Len(sibs) THEN sibs[loc.position + 1] ELSE None)
      located(s1, loc) == merged(s1, loc, s1.nodes[loc.parent].children)
      reconstructed(s1, foster_parenting) ==
        located(s1, Call("_appropriate_insertion_location", s1, <<None, foster_parenting>>))
      slow(s0, foster_parenting) ==
        reconstructed(IF foster_parenting THEN Call("_reconstruct_active_formatting_elements", s0, <<>>) ELSE s0,
                      foster_parenting)
      go(s0, target) ==
        IF strip /\ text = <<>> THEN s0
        ELSE IF s0.open_elements = <<>> THEN s0
        ELSE IF NameOf(s0, target) \notin TABLE_FOSTER_TARGETS /\ ~IsTemplateNode(s0, target)
        THEN fast(s0, target, s0.nodes[target].children)
        ELSE slow(s0, _should_foster_parenting(s0, target, "", TRUE))
  IN  go([s EXCEPT !.ignore_lf = FALSE], Last(s.open_elements))

\* list.insert(index, x) with Python's clamping of the 0-based index
PyInsert(seq, index, x) ==
  LET i0 == IF index < 0 THEN (IF Len(seq) + index < 0 THEN 0 ELSE Len(seq) + index)
            ELSE IF index > Len(seq) THEN Len(seq) ELSE index
  IN  InsertAt(seq, i0 + 1, x)

_is_special_element(s, node) == IsHtmlNamespace(s, node) /\ NameOf(s, node) \in SPECIAL_ELEMENTS

_close_element_by_name(s, name) ==
  IF LastNamed(s, {name}) = 0 THEN s
  ELSE [s EXCEPT !.open_elements = Prefix(@, LastNamed(s, {name}) - 1)]

\* walks the stack from the top to the first element that is named name or special
_any_other_end_tag(s, name) ==
  LET oe == s.open_elements
      stops == {i \in 1..Len(oe) : NameOf(s, oe[i]) = name \/ _is_special_element(s, oe[i])}
      index == CHOOSE i \in stops : \A j \in stops : j <= i
  IN  IF stops = {} THEN s
      ELSE IF NameOf(s, oe[index]) = name
      THEN [(IF index # Len(oe) THEN Call("_parse_error", s, "end-tag-too-early") ELSE s)
              EXCEPT !.open_elements = Prefix(@, index - 1)]
      ELSE Call("_parse_error", s, "unexpected-end-tag")

(* ---------------------------------------------------------------------- *)
(* treebuilder_modes.py: the adoption agency algorithm                     *)
(* ---------------------------------------------------------------------- *)

RECURSIVE AdoptionInner(_, _, _, _, _, _, _)
\* step 10, the inner loop; indices into active_formatting are 1-based here,
\* so bookmark is the source's bookmark + 1
AdoptionInner(s, formatting_element, furthest_block, node0, last_node, bookmark, counter) ==
  LET inner_loop_counter == counter + 1
      node_index == IndexOf(s.open_elements, node0)
      \* Python's open_elements[node_index - 1] wraps to the last element at 0
      node == s.open_elements[IF node_index = 1 THEN Len(s.open_elements) ELSE node_index - 1]
      found == _find_active_formatting_index_by_node(s, node)
      drop == inner_loop_counter > 3 /\ found # 0
      bookmark1 == IF drop /\ found < bookmark THEN bookmark - 1 ELSE bookmark
      node_formatting_index == IF drop THEN 0 ELSE found
      \* node is not a formatting entry: it leaves the stack, the loop goes on above it
      above(s2, at) ==
        AdoptionInner(s2, formatting_element, furthest_block,
                      s2.open_elements[at], last_node, bookmark1, inner_loop_counter)
      removed(s1, at) == above([s1 EXCEPT !.open_elements = RemoveAt(@, at)], at)
      \* node is replaced by a copy, last_node moves under the copy
      reparented(s3, new_element) ==
        AdoptionInner(Call("append_child", IF s3.nodes[last_node].parent # None
                                   THEN remove_child(s3, s3.nodes[last_node].parent, last_node)
                                   ELSE s3, <<new_element, last_node>>),
                      formatting_element, furthest_block, new_element, new_element,
                      IF last_node = furthest_block THEN node_formatting_index + 1 ELSE bookmark1,
                      inner_loop_counter)
      replaced(s2, new_element) ==
        reparented([s2 EXCEPT !.active_formatting[node_formatting_index].node = new_element,
                              !.open_elements[IndexOf(s2.open_elements, node)] = new_element],
                   new_element)
      copied(s1) ==
        replaced(NewNode(s1, Node(s1.active_formatting[node_formatting_index].name,
                                  "html", <<>>, None)),
                 Len(s1.nodes) + 1)
      continued(s1) ==
        IF node_formatting_index = 0 THEN removed(s1, IndexOf(s1.open_elements, node))
        ELSE copied(s1)
  IN  IF node = formatting_element
      THEN [s |-> s, last_node |-> last_node, bookmark |-> bookmark,
            inner_loop_counter |-> inner_loop_counter]
      ELSE continued(IF drop THEN _remove_formatting_entry(s, found) ELSE s)

\* steps 11-15 of one outer iteration, after the inner loop returned r
AdoptionFinish(s, formatting_element_index, formatting_element, furthest_block, in_open_index, r) ==
  LET last_node == r.last_node
      step15(s6, new_formatting_element, entry, without) ==
        [s6 EXCEPT
           !.active_formatting =
              PyInsert(RemoveAt(@, formatting_element_index), r.bookmark - 2, entry),
           !.open_elements =
              PyInsert(without, IndexOf(without, furthest_block), new_formatting_element)]
      step14(s6, new_formatting_element) ==
        step15(s6, new_formatting_element, s6.active_formatting[formatting_element_index],
               RemoveAt(s6.open_elements, IndexOf(s6.open_elements, formatting_element)))
      \* step 13: the furthest block's children move, in order, under the new element
      step13(s5, new_formatting_element, moved) ==
        step14([s5 EXCEPT
                  !.active_formatting[formatting_element_index].node = new_formatting_element,
                  !.nodes = [n \in DOMAIN @ |->
                     IF n = new_formatting_element
                     THEN [@[n] EXCEPT !.children = moved, !.parent = furthest_block]
                     ELSE IF n = furthest_block
                     THEN [@[n] EXCEPT !.children = <<new_formatting_element>>]
                     ELSE IF \E k \in 1..Len(moved) : moved[k] = n
                     THEN [@[n] EXCEPT !.parent = new_formatting_element]
                     ELSE @[n]]],
               new_formatting_element)
      step12(s4) ==
        step13(NewNode(s4, Node(s4.active_formatting[formatting_element_index].name,
                                "html", <<>>, None)),
               Len(s4.nodes) + 1, s4.nodes[furthest_block].children)
      at(s3, loc) == Call("_insert_node_at", s3, <<loc.parent, loc.position, last_node>>)
      step11(s3, common_ancestor) ==
        step12(IF _should_foster_parenting(s3, common_ancestor, NameOf(s3, last_node), FALSE)
               THEN at(s3, Call("_appropriate_insertion_location", s3, <<common_ancestor, TRUE>>))
               ELSE IF IsTemplateNode(s3, common_ancestor)
               THEN Call("append_child", s3, <<s3.nodes[common_ancestor].template_content, last_node>>)
               ELSE Call("append_child", s3, <<common_ancestor, last_node>>))
      detached(s2) ==
        step11(IF s2.nodes[last_node].parent # None
               THEN remove_child(s2, s2.nodes[last_node].parent, last_node) ELSE s2,
               s2.open_elements[IF in_open_index = 1 THEN Len(s2.open_elements)
                                ELSE in_open_index - 1])
  IN  detached([r.s EXCEPT !.adopted[Len(r.s.adopted)].inner = r.inner_loop_counter])

\* for _ in range(9)
OuterLoopOfNine(iteration) == iteration >= 9

\* for _ in range(8): the outer loop is left after iteration iterations
OuterLoopDone(iteration) == iteration >= 8

RECURSIVE AdoptionOuter(_, _, _)
\* steps 2-15: the outer loop, iteration = number of iterations already done
AdoptionOuter(s0, subject, iteration) ==
  LET s == [s0 EXCEPT !.adopted = Append(@, [inner |-> 0, depth |-> Len(s0.open_elements)])]
      formatting_element_index == _find_active_formatting_index(s, subject)
      formatting_element == s.active_formatting[formatting_element_index].node
      moved(s1, in_open_index, furthest_block) ==
        AdoptionOuter(
          AdoptionFinish(s1, formatting_element_index, formatting_element, furthest_block,
                         in_open_index,
                         AdoptionInner(s1, formatting_element, furthest_block, furthest_block,
                                       furthest_block, formatting_element_index + 1, 0)),
          subject, iteration + 1)
      searched(s1, in_open_index, blocks) ==
        IF blocks = {}
        THEN [s1 EXCEPT !.open_elements = Prefix(@, in_open_index - 1),
                        !.active_formatting = RemoveAt(@, formatting_element_index)]
        ELSE moved(s1, in_open_index,
                   s1.open_elements[CHOOSE i \in blocks : \A j \in blocks : i <= j])
      located(s1, in_open_index) ==
        searched(s1, in_open_index,
                 {i \in (in_open_index + 1)..Len(s1.open_elements) :
                    _is_special_element(s1, s1.open_elements[i])})
      checked(s1) == located(s1, IndexOf(s1.open_elements, formatting_element))
  IN  IF OuterLoopDone(iteration) THEN s0
      ELSE IF formatting_element_index = 0 THEN s
      ELSE IF ~InOpenElements(s, formatting_element)
      THEN _remove_formatting_entry(Call("_parse_error", s, "adoption-agency-1.3"), formatting_element_index)
      ELSE IF ~Call("_has_element_in_scope", s, <<NameOf(s, formatting_element), DEFAULT_SCOPE_TERMINATORS, TRUE>>)
      THEN Call("_parse_error", s, "adoption-agency-1.3")
      ELSE checked(IF formatting_element # Last(s.open_elements)
                   THEN Call("_parse_error", s, "adoption-agency-1.3") ELSE s)

_adoption_agency(s0, subject) ==
  LET s == [s0 EXCEPT !.adopted = <<>>]
  IN  IF s.open_elements # <<>> /\ NameOf(s, Last(s.open_elements)) = subject
         /\ ~_has_active_formatting_entry(s, subject)
      THEN Call("_pop_until_inclusive", s, subject)
      ELSE AdoptionOuter(s, subject, 0)

(* ---------------------------------------------------------------------- *)
(* tokens.py                                                               *)
(* ---------------------------------------------------------------------- *)

START == 0
END == 1

\* tokens.Tag; attrs is the dict in insertion order, a sequence of
\* [name, value] items
TagWith(kind, name, attrs, self_closing) ==
  [type |-> "Tag", kind |-> kind, name |-> name, data |-> <<>>,
   attrs |-> attrs, self_closing |-> self_closing]

\* a tag without attributes
Tag(kind, name) == TagWith(kind, name, <<>>, FALSE)

CharacterTokens(data) == [type |-> "CharacterTokens", kind |-> START, name |-> "", data |-> data]

CommentToken(data) == [type |-> "CommentToken", kind |-> START, name |-> "", data |-> data]

EOFToken == [type |-> "EOFToken", kind |-> START, name |-> "", data |-> <<>>]

\* tokens.Doctype; an identifier is <<>> for None and <<text>> otherwise, the
\* name is "" for None (the tokenizer never emits an empty name)
Doctype(name, public_id, system_id, force_quirks) ==
  [name |-> name, public_id |-> public_id, system_id |-> system_id,
   force_quirks |-> force_quirks]

\* tokens.DoctypeToken(doctype)
DoctypeTokenOf(doctype) ==
  [type |-> "DoctypeToken", kind |-> START, name |-> "", data |-> <<>>, doctype |-> doctype]

\* <!DOCTYPE html>: name html, no public or system identifier, no force-quirks
DoctypeToken == DoctypeTokenOf(Doctype("html", <<>>, <<>>, FALSE))

IsStart(token, names) == token.type = "Tag" /\ token.kind = START /\ token.name \in names

IsEnd(token, names) == token.type = "Tag" /\ token.kind = END /\ token.name \in names

(* ---------------------------------------------------------------------- *)
(* treebuilder_modes.py: insertion modes.  A handler returns the object    *)
(* with s.result = NoResult (the source's None) or the reprocess request   *)
(* (mode, token).                                                          *)
(* ---------------------------------------------------------------------- *)

NoResult == [mode |-> "", token |-> EOFToken, force_html |-> FALSE]

Done(s) == [s EXCEPT !.result = NoResult]

Reprocess(s, mode, token) ==
  [s EXCEPT !.result = [mode |-> mode, token |-> token, force_html |-> FALSE]]

\* ("reprocess", mode, token, True)
ReprocessAsHtml(s, mode, token) ==
  [s EXCEPT !.result = [mode |-> mode, token |-> token, force_html |-> TRUE]]

\* number of leading whitespace characters of data
LeadingWs(data) ==
  LET rest == {i \in 1..Len(data) : data[i] \notin WHITESPACE}
  IN  IF rest = {} THEN Len(data) ELSE (CHOOSE i \in rest : \A j \in rest : i <= j) - 1

\* str.lower() of the identifiers the model feeds
Lower(text) ==
  CASE text = "-//W3C//DTD HTML 4.01//EN" -> "-//w3c//dtd html 4.01//en"
    [] text = "-//W3C//DTD HTML 4.01 Transitional//EN" -> "-//w3c//dtd html 4.01 transitional//en"
    [] text = "-//W3C//DTD XHTML 1.0 Transitional//EN" -> "-//w3c//dtd xhtml 1.0 transitional//en"
    [] text = "HTML" -> "html"
    [] text = "HIDDEN" -> "hidden"
    [] OTHER -> text

QUIRKY_PUBLIC_MATCHES ==
  {"-//w3o//dtd w3 html strict 3.0//en//", "-/w3c/dtd html 4.0 transitional/en", "html"}

QUIRKY_SYSTEM_MATCHES == {"http://www.ibm.com/data/dtd/v11/ibmxhtml1-transitional.dtd"}

\* of QUIRKY_PUBLIC_PREFIXES, LIMITED_QUIRKY_PUBLIC_PREFIXES and HTML4_PUBLIC_PREFIXES,
\* the prefixes that the identifiers the model feeds start with
QUIRKY_PUBLIC_PREFIXES == {"-//w3c//dtd html 4.0 transitional//"}

LIMITED_QUIRKY_PUBLIC_PREFIXES == {"-//w3c//dtd xhtml 1.0 transitional//"}

HTML4_PUBLIC_PREFIXES == {"-//w3c//dtd html 4.01 transitional//"}

\* needle.startswith(prefix), for the lower-cased identifiers the model feeds
StartsWith(needle, prefix) ==
  \/ needle = "-//w3c//dtd html 4.01 transitional//en"
       /\ prefix = "-//w3c//dtd html 4.01 transitional//"
  \/ needle = "-//w3c//dtd xhtml 1.0 transitional//en"
       /\ prefix = "-//w3c//dtd xhtml 1.0 transitional//"

contains_prefix(haystack, needle) == \E prefix \in haystack : StartsWith(needle, prefix)

\* the (name, public_id, system_id) triples that are no parse error
ACCEPTABLE_DOCTYPES ==
  {<<"html", <<>>, <<>>>>,
   <<"html", <<>>, <<"about:legacy-compat">>>>,
   <<"html", <<"-//W3C//DTD HTML 4.0//EN">>, <<>>>>,
   <<"html", <<"-//W3C//DTD HTML 4.0//EN">>, <<"http://www.w3.org/TR/REC-html40/strict.dtd">>>>,
   <<"html", <<"-//W3C//DTD HTML 4.01//EN">>, <<>>>>,
   <<"html", <<"-//W3C//DTD HTML 4.01//EN">>, <<"http://www.w3.org/TR/html4/strict.dtd">>>>,
   <<"html", <<"-//W3C//DTD XHTML 1.0 Strict//EN">>,
     <<"http://www.w3.org/TR/xhtml1/DTD/xhtml1-strict.dtd">>>>,
   <<"html", <<"-//W3C//DTD XHTML 1.1//EN">>, <<"http://www.w3.org/TR/xhtml11/DTD/xhtml11.dtd">>>>}

\* (parse_error, quirks_mode); the tests are made in the order of the source
doctype_error_and_quirks(doctype, iframe_srcdoc) ==
  LET name == Lower(doctype.name)
      set(id) == id # <<>> /\ id[1] # ""
      public_lower == IF set(doctype.public_id) THEN Lower(doctype.public_id[1]) ELSE ""
      system_lower == IF set(doctype.system_id) THEN Lower(doctype.system_id[1]) ELSE ""
      quirks_mode ==
        IF doctype.force_quirks THEN "quirks"
        ELSE IF iframe_srcdoc THEN "no-quirks"
        ELSE IF name # "html" THEN "quirks"
        ELSE IF public_lower # "" /\ public_lower \in QUIRKY_PUBLIC_MATCHES THEN "quirks"
        ELSE IF system_lower # "" /\ system_lower \in QUIRKY_SYSTEM_MATCHES THEN "quirks"
        ELSE IF public_lower # "" /\ contains_prefix(QUIRKY_PUBLIC_PREFIXES, public_lower)
        THEN "quirks"
        ELSE IF public_lower # "" /\ contains_prefix(LIMITED_QUIRKY_PUBLIC_PREFIXES, public_lower)
        THEN "limited-quirks"
        ELSE IF public_lower # "" /\ contains_prefix(HTML4_PUBLIC_PREFIXES, public_lower)
        THEN IF system_lower = "" THEN "quirks" ELSE "limited-quirks"
        ELSE "no-quirks"
  IN  [parse_error |-> <<name, doctype.public_id, doctype.system_id>> \notin ACCEPTABLE_DOCTYPES,
       quirks_mode |-> quirks_mode]

_set_quirks_mode(s, mode) == [s EXCEPT !.quirks_mode = mode]

_handle_doctype(s, token) ==
  IF s.mode # "INITIAL" THEN Call("_parse_error", s, "unexpected-doctype")
  ELSE LET verdict == doctype_error_and_quirks(token.doctype, s.iframe_srcdoc)
           reported(s1) == IF verdict.parse_error THEN Call("_parse_error", s1, "unknown-doctype")
                           ELSE s1
           appended(s0) ==
             [_set_quirks_mode(reported(Call("append_child", s0, <<s0.document, NewId(s0)>>)),
                               verdict.quirks_mode)
                EXCEPT !.mode = "BEFORE_HTML"]
       IN  appended(NewNode(s, Node("!doctype", "html", token.doctype, None)))

_mode_initial(s, token) ==
  IF token.type = "CharacterTokens"
  THEN IF is_all_whitespace(token.data) THEN Done(s)
       ELSE Reprocess([Call("_parse_error", s, "expected-doctype-but-got-chars") EXCEPT !.quirks_mode = "quirks"],
                      "BEFORE_HTML", token)
  ELSE IF token.type = "CommentToken" THEN Done(_append_comment_to_document(s, token.data))
  ELSE IF token.type = "EOFToken"
  THEN Reprocess([Call("_parse_error", s, "expected-doctype-but-got-eof") EXCEPT
                    !.quirks_mode = "quirks", !.mode = "BEFORE_HTML"], "BEFORE_HTML", token)
  ELSE Reprocess([Call("_parse_error", s, IF token.kind = START THEN "expected-doctype-but-got-start-tag"
                                  ELSE "expected-doctype-but-got-end-tag")
                    EXCEPT !.quirks_mode = "quirks"], "BEFORE_HTML", token)

_mode_before_html(s, token) ==
  IF token.type = "CharacterTokens" /\ is_all_whitespace(token.data) THEN Done(s)
  ELSE IF token.type = "CommentToken" THEN Done(_append_comment_to_document(s, token.data))
  ELSE IF token.type = "Tag" /\ token.kind = END
  THEN Done(Call("_parse_error", s, "unexpected-end-tag-before-html"))
  ELSE Reprocess([_create_root(s) EXCEPT !.mode = "BEFORE_HEAD"], "BEFORE_HEAD",
                 IF token.type = "CharacterTokens"
                 THEN CharacterTokens(SubSeq(token.data, LeadingWs(token.data) + 1, Len(token.data)))
                 ELSE token)

_mode_before_head(s, token) ==
  IF token.type = "CharacterTokens" /\ is_all_whitespace(token.data) THEN Done(s)
  ELSE IF token.type = "CommentToken" THEN Done(Call("_append_comment", s, <<token.data, None>>))
  ELSE IF token.type = "Tag" /\ token.kind = END
  THEN Done(Call("_parse_error", s, "unexpected-end-tag-before-head"))
  ELSE LET inserted(s1) ==
             Reprocess([s1 EXCEPT !.head_element = NewId(s1), !.mode = "IN_HEAD"], "IN_HEAD", token)
       IN  inserted(_insert_phantom(s, "head"))


_reset_insertion_mode(s) ==
  LET oe == s.open_elements
      decisive(i) ==
        \/ NameOf(s, oe[i]) \in {"select", "td", "th", "tr", "tbody", "tfoot", "thead",
                                 "caption", "table", "head", "html"}
        \/ NameOf(s, oe[i]) = "template" /\ s.template_modes # <<>>
      hits == {i \in 1..Len(oe) : decisive(i)}
      name == NameOf(s, oe[CHOOSE i \in hits : \A j \in hits : j <= i])
  IN  [s EXCEPT !.mode =
         IF hits = {} THEN "IN_BODY"
         ELSE CASE name = "select" -> "IN_SELECT"
                [] name \in {"td", "th"} -> "IN_CELL"
                [] name = "tr" -> "IN_ROW"
                [] name \in {"tbody", "tfoot", "thead"} -> "IN_TABLE_BODY"
                [] name = "caption" -> "IN_CAPTION"
                [] name = "table" -> "IN_TABLE"
                [] name = "template" -> Last(s.template_modes)
                [] name = "head" -> "IN_HEAD"
                [] OTHER -> "IN_BODY"]

\* the tokens are of the modelled tag names: html, meta, title, script,
\* noscript, head, body and br tags never arrive
_mode_in_head(s, token) ==
  LET pop_head == [_pop_current(s) EXCEPT !.mode = "AFTER_HEAD"]
  IN  IF token.type = "CharacterTokens"
      THEN IF is_all_whitespace(token.data) THEN Done(Call("_append_text", s, token.data))
           ELSE LET i == LeadingWs(token.data)
                    s1 == IF i > 0 /\ s.open_elements # <<>>
                             /\ s.nodes[Last(s.open_elements)].children # <<>>
                          THEN Call("_append_text", s, SubSeq(token.data, 1, i)) ELSE s
                IN  Reprocess([_pop_current(s1) EXCEPT !.mode = "AFTER_HEAD"], "AFTER_HEAD",
                              CharacterTokens(SubSeq(token.data, i + 1, Len(token.data))))
      ELSE IF token.type = "CommentToken" THEN Done(Call("_append_comment", s, <<token.data, None>>))
      ELSE IF IsStart(token, {"template"})
      THEN Done([_push_formatting_marker(Call("_insert_element", s, <<"template", TRUE>>)) EXCEPT
                   !.frameset_ok = FALSE, !.mode = "IN_TEMPLATE",
                   !.template_modes = Append(@, "IN_TEMPLATE")])
      ELSE IF IsEnd(token, {"template"})
      THEN IF LastNamed(s, {"template"}) = 0 THEN Done(s)
           ELSE LET s1 == _clear_active_formatting_up_to_marker(
                            Call("_pop_until_inclusive", _generate_implied_end_tags(s, ""), "template"))
                IN  Done(Call("_reset_insertion_mode", PopTemplateMode(s1), <<>>))
      ELSE IF IsStart(token, {"title", "style", "script", "noframes"})
      THEN Done([Call("_insert_element", s, <<token.name, TRUE>>) EXCEPT
                   !.original_mode = s.mode, !.mode = "TEXT"])
      ELSE Reprocess(pop_head, "AFTER_HEAD", token)

\* self.open_elements.remove(self.head_element)
RemoveHead(s) ==
  [s EXCEPT !.open_elements = RemoveAt(@, IndexOf(@, s.head_element))]

_mode_after_head(s, token) ==
  IF token.type = "CharacterTokens" /\ is_all_whitespace(token.data)
  THEN Done(IF token.data # <<>> THEN Call("_append_text", s, token.data) ELSE s)
  ELSE IF token.type = "CommentToken" THEN Done(Call("_append_comment", s, <<token.data, None>>))
  ELSE IF IsStart(token, {"frameset"})
  THEN Done([Call("_insert_element", s, <<"frameset", TRUE>>) EXCEPT !.mode = "IN_FRAMESET"])
  ELSE IF IsStart(token, {"title", "style", "script"})
  THEN LET in_head(r) == IF r.exc # "" THEN r ELSE RemoveHead(r)
       IN  in_head(Call("IN_HEAD", [s EXCEPT !.open_elements = Append(@, s.head_element)], token))
  ELSE IF IsStart(token, {"template"})
  THEN Reprocess([s EXCEPT !.open_elements = Append(@, s.head_element), !.mode = "IN_HEAD"],
                 "IN_HEAD", token)
  ELSE IF IsEnd(token, {"template"}) THEN Call("IN_HEAD", s, token)
  ELSE IF token.type = "Tag" /\ token.kind = END
  THEN Done(Call("_parse_error", s, "unexpected-end-tag-after-head"))
  ELSE IF token.type = "EOFToken"
  THEN Reprocess([_insert_body_if_missing(s) EXCEPT !.mode = "IN_BODY"], "IN_BODY", token)
  ELSE Reprocess(_insert_body_if_missing(s), "IN_BODY", token)

_mode_text(s, token) ==
  LET left == [_pop_current(s) EXCEPT
                 !.mode = IF s.original_mode # "" THEN s.original_mode ELSE "IN_BODY"]
  IN  IF token.type = "CharacterTokens" THEN Done(Call("_append_text", s, token.data))
      ELSE IF token.type = "EOFToken"
      THEN LET closed(s1) ==
                 LET back == [_pop_current(s1) EXCEPT
                                !.mode = IF s1.original_mode # "" THEN s1.original_mode
                                         ELSE "IN_BODY"]
                 IN  Reprocess(back, back.mode, token)
           IN  closed(Call("_parse_error", s, "expected-named-closing-tag-but-got-eof"))
      ELSE Done(left)

(* ---------------------------------------------------------------------- *)
(* treebuilder_modes.py: "in body"                                         *)
(* ---------------------------------------------------------------------- *)

\* the start tag of a inserted without looking for an a in the list of
\* active formatting elements
StartAWithoutAdoption(s, token) ==
  LET entered(s2) == Done(_append_active_formatting_entry(s2, "a", NewId(s2)))
  IN  entered(Call("_insert_element", _reconstruct_active_formatting_elements(s), <<"a", TRUE>>))

_handle_body_start_a(s, token) ==
  LET entered(s2) == Done(_append_active_formatting_entry(s2, "a", NewId(s2)))
      inserted(s1) == entered(Call("_insert_element", _reconstruct_active_formatting_elements(s1), <<"a", TRUE>>))
  IN  inserted(IF _has_active_formatting_entry(s, "a")
               THEN _remove_last_open_element_by_name(
                      _remove_last_active_formatting_by_name(Call("_adoption_agency", s, "a"), "a"), "a")
               ELSE s)

_handle_body_start_formatting(s, token) ==
  LET name == token.name
      entered(s4) == Done(_append_active_formatting_entry(s4, name, NewId(s4)))
      deduplicated(s2, duplicate_index) ==
        entered(Call("_insert_element", IF duplicate_index # 0
                                THEN _remove_formatting_entry(s2, duplicate_index) ELSE s2, <<name, TRUE>>))
      reconstructed(s2) == deduplicated(s2, _find_active_formatting_duplicate(s2, name))
  IN  reconstructed(Call("_reconstruct_active_formatting_elements", IF name = "nobr" /\ Call("_has_element_in_scope", s, <<"nobr", DEFAULT_SCOPE_TERMINATORS, TRUE>>)
        THEN _remove_last_open_element_by_name(
               _remove_last_active_formatting_by_name(Call("_adoption_agency", s, "nobr"), "nobr"), "nobr")
        ELSE s, <<>>))

_handle_body_start_paragraph(s, token) == Done(Call("_insert_element", _close_p_element(s), <<token.name, TRUE>>))

_handle_body_start_block_with_p(s, token) == Done(Call("_insert_element", _close_p_element(s), <<token.name, TRUE>>))

_handle_body_start_form(s, token) ==
  IF s.form_element # None
  THEN Done(Call("_parse_error", s, "unexpected-start-tag"))
  ELSE LET s1 == Call("_insert_element", Call("_close_p_element", s, <<>>), <<token.name, TRUE>>)
       IN  Done([s1 EXCEPT !.form_element = NewId(s1), !.frameset_ok = FALSE])

_handle_body_end_form(s, token) ==
  IF s.form_element = None
  THEN Done(Call("_parse_error", s, "unexpected-end-tag"))
  ELSE LET s1 == [_remove_from_open_elements(s, s.form_element) EXCEPT !.form_element = None]
       IN  Done(IF ~InOpenElements(s, s.form_element)
                THEN Call("_parse_error", s1, "unexpected-end-tag") ELSE s1)

\* the start tag of table without the test of quirks_mode
TableClosingP(s, token) ==
  Done([Call("_insert_element", Call("_close_p_element", s, <<>>), <<token.name, TRUE>>)
          EXCEPT !.frameset_ok = FALSE, !.mode = "IN_TABLE"])

_handle_body_start_table(s, token) ==
  LET s1 == IF s.quirks_mode # "quirks" THEN Call("_close_p_element", s, <<>>) ELSE s
  IN  Done([Call("_insert_element", s1, <<token.name, TRUE>>) EXCEPT !.frameset_ok = FALSE, !.mode = "IN_TABLE"])

_handle_body_start_select(s, token) ==
  Done(Call("_reset_insertion_mode", [Call("_insert_element", _reconstruct_active_formatting_elements(s), <<token.name, TRUE>>)
            EXCEPT !.frameset_ok = FALSE], <<>>))

_handle_body_start_option(s, token) ==
  LET s1 == IF s.open_elements # <<>> /\ NameOf(s, Last(s.open_elements)) = "option"
            THEN [s EXCEPT !.open_elements = Front(@)] ELSE s
  IN  Done(Call("_insert_element", _reconstruct_active_formatting_elements(s1), <<token.name, TRUE>>))

\* the handler without its test of frameset-ok
FramesetWithoutOk(s, token) ==
  LET body_index == IndexOf([i \in 1..Len(s.open_elements) |-> NameOf(s, s.open_elements[i])], "body")
      body_elem == s.open_elements[body_index]
      s1 == remove_child(s, s.nodes[body_elem].parent, body_elem)
  IN  IF body_index = 0
      THEN Done(Call("_parse_error", s, "unexpected-start-tag-ignored"))
      ELSE Done([Call("_insert_element", [s1 EXCEPT !.open_elements = Prefix(@, body_index - 1)], <<token.name, TRUE>>) EXCEPT !.mode = "IN_FRAMESET"])

_handle_body_start_frameset(s, token) ==
  LET body_index == IndexOf([i \in 1..Len(s.open_elements) |-> NameOf(s, s.open_elements[i])], "body")
      body_elem == s.open_elements[body_index]
      s1 == IF s.nodes[body_elem].parent = None THEN Raise(s, "AttributeError")
            ELSE remove_child(s, s.nodes[body_elem].parent, body_elem)
  IN  IF ~s.frameset_ok \/ body_index = 0
      THEN Done(Call("_parse_error", s, "unexpected-start-tag-ignored"))
      ELSE Done([Call("_insert_element", [s1 EXCEPT !.open_elements = Prefix(@, body_index - 1)], <<token.name, TRUE>>) EXCEPT !.mode = "IN_FRAMESET"])

_handle_body_start_in_head(s, token) == Call("IN_HEAD", s, token)

_handle_body_start_plaintext_xmp(s, token) ==
  LET inserted == [Call("_insert_element", Call("_close_p_element", s, <<>>), <<token.name, TRUE>>)
                     EXCEPT !.frameset_ok = FALSE]
  IN  Done(IF token.name = "plaintext"
           THEN [inserted EXCEPT !.tokenizer_state_override = "Plaintext"]
           ELSE [inserted EXCEPT !.original_mode = inserted.mode, !.mode = "TEXT"])

_handle_body_start_textarea(s, token) ==
  Done([Call("_insert_element", s, <<token.name, TRUE>>) EXCEPT
          !.ignore_lf = TRUE, !.frameset_ok = FALSE])

_handle_body_start_structure_ignored(s, token) == Done(Call("_parse_error", s, "unexpected-start-tag-ignored"))

_handle_body_start_default(s, token) ==
  LET inserted == Call("_insert_element", _reconstruct_active_formatting_elements(s),
                       <<token.name, TRUE>>)
  IN  Done([(IF token.self_closing
             THEN Call("_parse_error", inserted,
                       "non-void-html-element-start-tag-with-trailing-solidus")
             ELSE inserted) EXCEPT !.frameset_ok = FALSE])

_handle_body_end_p(s, token) ==
  IF _has_element_in_button_scope(s, "p") THEN Done(Call("_close_p_element", s, <<>>))
  ELSE Done(Call("_close_p_element", _insert_element(Call("_parse_error", s, "unexpected-end-tag"), "p", TRUE), <<>>))

_handle_body_end_block(s, token) ==
  IF ~Call("_has_element_in_scope", s, <<token.name, DEFAULT_SCOPE_TERMINATORS, TRUE>>)
  THEN Done(Call("_parse_error", s, "unexpected-end-tag"))
  ELSE LET checked(s1) ==
             IF s1.open_elements # <<>> /\ NameOf(s1, Last(s1.open_elements)) # token.name
             THEN Call("_parse_error", s1, "end-tag-too-early") ELSE s1
       IN  Done(Call("_pop_until_any_inclusive", checked(Call("_generate_implied_end_tags", s, "")), {token.name}))

_handle_body_end_template(s, token) ==
  IF LastNamed(s, {"template"}) = 0 THEN Done(s)
  ELSE LET s1 == _clear_active_formatting_up_to_marker(
                   Call("_pop_until_inclusive", _generate_implied_end_tags(s, ""), "template"))
       IN  Done(Call("_reset_insertion_mode", [s1 EXCEPT !.template_modes = IF @ # <<>> THEN Front(@) ELSE @], <<>>))

_handle_characters_in_body(s, token) ==
  LET s1 == Call("_reconstruct_active_formatting_elements", s, <<>>)
  IN  Done(Call("_append_text", IF is_all_whitespace(token.data) THEN s1
                        ELSE [s1 EXCEPT !.frameset_ok = FALSE], token.data))

IMPLICITLY_CLOSED ==
  {"dd", "dt", "li", "optgroup", "option", "p", "rb", "rp", "rt", "rtc",
   "tbody", "td", "tfoot", "th", "thead", "tr", "body", "html"}

_handle_eof_in_body(s, token) ==
  IF s.template_modes # <<>> THEN Call("IN_TEMPLATE", s, token)
  ELSE LET unclosed == \E i \in 1..Len(s.open_elements) :
                          NameOf(s, s.open_elements[i]) \notin IMPLICITLY_CLOSED
           s1 == IF unclosed THEN Call("_parse_error", s, "expected-closing-tag-but-got-eof") ELSE s
       IN  Reprocess([s1 EXCEPT !.mode = "AFTER_BODY"], "AFTER_BODY", token)

_handle_body_start_math(s, token) ==
  Done(Call("_insert_element_in", Call("_reconstruct_active_formatting_elements", s, <<>>),
            <<token.name, ~token.self_closing, "math">>))

_handle_body_start_svg(s, token) ==
  Done(Call("_insert_element_in", Call("_reconstruct_active_formatting_elements", s, <<>>),
            <<_adjust_svg_tag_name(token.name), ~token.self_closing, "svg">>))

\* the lower-cased value of the type attribute of the tag, "" for a value of
\* None, and None without the attribute
InputType(token) ==
  LET types == {i \in 1..Len(token.attrs) : token.attrs[i].name = "type"}
  IN  IF types = {} THEN None ELSE Lower(token.attrs[CHOOSE i \in types : TRUE].value)

_handle_body_start_input(s, token) ==
  LET inserted == Call("_insert_element", s, <<token.name, FALSE>>)
  IN  Done(IF InputType(token) # "hidden" THEN [inserted EXCEPT !.frameset_ok = FALSE] ELSE inserted)

\* the handler without the test of a button in scope
ButtonWithoutClose(s, token) ==
  Done([Call("_insert_element", s, <<token.name, TRUE>>) EXCEPT !.frameset_ok = FALSE])

_handle_body_start_button(s, token) ==
  LET closed == IF Call("_has_element_in_scope", s, <<"button", DEFAULT_SCOPE_TERMINATORS, TRUE>>)
                THEN _close_element_by_name(Call("_parse_error", s, "unexpected-start-tag-implies-end-tag"), "button")
                ELSE s
  IN  Done([Call("_insert_element", closed, <<token.name, TRUE>>) EXCEPT !.frameset_ok = FALSE])

\* _BODY_START_HANDLERS / _BODY_END_HANDLERS for the modelled tag names
_handle_tag_in_body(s, token) ==
  LET name == token.name
  IN  IF token.kind = START
      THEN CASE name = "a" -> _handle_body_start_a(s, token)
             [] name \in (FORMATTING_ELEMENTS \ {"a"}) -> _handle_body_start_formatting(s, token)
             [] name = "p" -> _handle_body_start_paragraph(s, token)
             [] name = "div" -> _handle_body_start_block_with_p(s, token)
             [] name = "table" -> _handle_body_start_table(s, token)
             [] name = "form" -> _handle_body_start_form(s, token)
             [] name = "input" -> _handle_body_start_input(s, token)
             [] name = "button" -> _handle_body_start_button(s, token)
             [] name \in {"tr", "td"} -> _handle_body_start_structure_ignored(s, token)
             [] name \in {"template", "title", "style", "script", "noframes"} ->
                  _handle_body_start_in_head(s, token)
             [] name \in {"plaintext", "xmp"} -> _handle_body_start_plaintext_xmp(s, token)
             [] name = "textarea" -> _handle_body_start_textarea(s, token)
             [] name = "select" -> _handle_body_start_select(s, token)
             [] name = "option" -> _handle_body_start_option(s, token)
             [] name = "frameset" -> _handle_body_start_frameset(s, token)
             [] name = "math" -> _handle_body_start_math(s, token)
             [] name = "svg" -> _handle_body_start_svg(s, token)
             [] OTHER -> _handle_body_start_default(s, token)
      ELSE CASE name \in FORMATTING_ELEMENTS -> Done(Call("_adoption_agency", s, name))
             [] name = "p" -> _handle_body_end_p(s, token)
             [] name \in {"div", "table"} -> _handle_body_end_block(s, token)
             [] name = "template" -> _handle_body_end_template(s, token)
             [] name = "form" -> _handle_body_end_form(s, token)
             [] OTHER -> Done(_any_other_end_tag(s, name))

_mode_in_body(s, token) ==
  CASE token.type = "CharacterTokens" -> _handle_characters_in_body(s, token)
    [] token.type = "CommentToken" -> Done(Call("_append_comment", s, <<token.data, None>>))
    [] token.type = "Tag" -> _handle_tag_in_body(s, token)
    [] token.type = "EOFToken" -> _handle_eof_in_body(s, token)
    [] OTHER -> Done(s)

(* ---------------------------------------------------------------------- *)
(* treebuilder_modes.py: the table modes                                   *)
(* ---------------------------------------------------------------------- *)

\* the turn of process_token under way notes by whom insert_from_table was
\* set to True
Fostering(s, by) ==
  IF s.dispatched = <<>> THEN s
  ELSE [s EXCEPT !.dispatched[Len(s.dispatched)].fostering = @ \cup {by}]

\* _mode_in_body run with insert_from_table set to flag and left so
InBodyWithoutRestore(s, token, flag) ==
  Call("IN_BODY", [(IF flag THEN Fostering(s, "IN_BODY") ELSE s) EXCEPT !.insert_from_table = flag], token)

\* _mode_in_body run with insert_from_table set to flag, restored afterwards
InBodyWith(s, token, flag) ==
  [Call("IN_BODY", [(IF flag THEN Fostering(s, "IN_BODY") ELSE s) EXCEPT !.insert_from_table = flag], token)
     EXCEPT !.insert_from_table = s.insert_from_table]

_close_table_element(s) ==
  IF ~_has_in_table_scope(s, "table") THEN Call("_parse_error", s, "unexpected-end-tag")
  ELSE Call("_reset_insertion_mode", _pop_until_inclusive(Call("_generate_implied_end_tags", s, ""), "table"), <<>>)

\* the loop pops through the last html element of that name, and the whole
\* stack when there is none
_end_table_cell(s, name) ==
  LET popped(s1) ==
        [s1 EXCEPT !.open_elements =
           Prefix(@, IF LastHtmlNamed(s1, {name}) = 0 THEN 0 ELSE LastHtmlNamed(s1, {name}) - 1)]
  IN  [_clear_active_formatting_up_to_marker(popped(_generate_implied_end_tags(s, name)))
         EXCEPT !.mode = "IN_ROW"]

\* the caller tests _has_in_table_scope to know whether a cell was closed
_close_table_cell(s) ==
  IF _has_in_table_scope(s, "td") THEN Call("_end_table_cell", s, "td")
  ELSE IF _has_in_table_scope(s, "th") THEN Call("_end_table_cell", s, "th")
  ELSE s

_end_tr_element(s) ==
  LET popped(s1) == IF s1.open_elements # <<>> /\ NameOf(s1, Last(s1.open_elements)) = "tr"
                    THEN [s1 EXCEPT !.open_elements = Front(@)] ELSE s1
      switched(s2) == [s2 EXCEPT !.mode = IF s2.template_modes # <<>> THEN Last(s2.template_modes)
                                          ELSE "IN_TABLE_BODY"]
  IN  switched(popped(_clear_stack_until(s, {"tr", "template", "html"})))

\* "".join(pending_table_text)
JoinText(chunks) ==
  LET F[i \in 0..Len(chunks)] == IF i = 0 THEN <<>> ELSE F[i - 1] \o chunks[i]
  IN  F[Len(chunks)]

_flush_pending_table_text(s) ==
  LET flushed(data, s0) ==
        IF data = <<>> THEN s0
        ELSE IF is_all_whitespace(data) THEN Call("_append_text", s0, data)
        ELSE [Call("_append_text", _reconstruct_active_formatting_elements(
                             [Fostering(Call("_parse_error", s0, "foster-parenting-character"), "flush")
                                EXCEPT !.insert_from_table = TRUE]), data)
                EXCEPT !.insert_from_table = s.insert_from_table]
  IN  flushed(JoinText(s.pending_table_text), [s EXCEPT !.pending_table_text = <<>>])

\* the hidden input left on the stack
HiddenInputKept(s, token) ==
  Call("_insert_element", Call("_parse_error", s, "unexpected-hidden-input-in-table"), <<token.name, TRUE>>)

\* <input type=hidden> in _mode_in_table: inserted with push=True and popped
_insert_hidden_input(s, token) ==
  [Call("_insert_element", Call("_parse_error", s, "unexpected-hidden-input-in-table"), <<token.name, TRUE>>)
     EXCEPT !.open_elements = Front(@)]

_mode_in_table(s, token) ==
  IF token.type = "CharacterTokens"
  THEN Reprocess([s EXCEPT !.pending_table_text = <<>>, !.table_text_original_mode = s.mode,
                           !.mode = "IN_TABLE_TEXT"], "IN_TABLE_TEXT", token)
  ELSE IF token.type = "CommentToken" THEN Done(Call("_append_comment", s, <<token.data, None>>))
  ELSE IF IsStart(token, {"td", "th", "tr"})
  THEN Reprocess([Call("_insert_element", _clear_stack_until(s, {"table", "template", "html"}), <<"tbody", TRUE>>)
                    EXCEPT !.mode = "IN_TABLE_BODY"], "IN_TABLE_BODY", token)
  ELSE IF IsStart(token, {"table"})
  THEN LET closed(s1) ==
             IF _has_in_table_scope(s, "table") THEN Reprocess(s1, s1.mode, token) ELSE Done(s1)
       IN  closed(_close_table_element(Call("_parse_error", s, "unexpected-start-tag-implies-end-tag")))
  ELSE IF IsStart(token, {"template"}) THEN Call("IN_HEAD", s, token)
  ELSE IF IsStart(token, {"input"}) /\ InputType(token) = "hidden"
  THEN Done(_insert_hidden_input(s, token))
  ELSE IF IsStart(token, {"form"})
  THEN LET s1 == Call("_parse_error", s, "unexpected-form-in-table")
           inserted(s2) == [s2 EXCEPT !.form_element = NewId(s2), !.open_elements = Front(@)]
       IN  Done(IF s.form_element = None
                THEN inserted(Call("_insert_element", s1, <<token.name, TRUE>>)) ELSE s1)
  ELSE IF token.type = "Tag" /\ token.kind = START
  THEN InBodyWith(Call("_parse_error", s, "unexpected-start-tag-implies-table-voodoo"), token, TRUE)
  ELSE IF IsEnd(token, {"table"}) THEN Done(_close_table_element(s))
  ELSE IF IsEnd(token, {"body", "caption", "col", "colgroup", "html", "tbody", "td", "tfoot",
                        "th", "thead", "tr"})
  THEN Done(Call("_parse_error", s, "unexpected-end-tag"))
  ELSE IF token.type = "Tag"
  THEN InBodyWith(Call("_parse_error", s, "unexpected-end-tag-implies-table-voodoo"), token, TRUE)
  ELSE IF s.template_modes # <<>> THEN Call("IN_TEMPLATE", s, token)
  ELSE Done(IF _has_in_table_scope(s, "table")
            THEN Call("_parse_error", s, "expected-closing-tag-but-got-eof") ELSE s)

_mode_in_table_text(s, token) ==
  IF token.type = "CharacterTokens"
  THEN Done(IF token.data # <<>> THEN [s EXCEPT !.pending_table_text = Append(@, token.data)] ELSE s)
  ELSE LET restored(s1, original) ==
             Reprocess([s1 EXCEPT !.table_text_original_mode = "", !.mode = original], original, token)
           flushed(s1) == restored(s1, IF s1.table_text_original_mode # ""
                                       THEN s1.table_text_original_mode ELSE "IN_TABLE")
       IN  flushed(_flush_pending_table_text(s))

\* fragment parsing with a tbody/tfoot/thead context and nothing but html on the stack
BareTableBodyFragment(s) ==
  /\ s.fragment_context \in {"tbody", "tfoot", "thead"}
  /\ s.open_elements # <<>>
  /\ NameOf(s, Last(s.open_elements)) = "html"

_mode_in_table_body(s, token) ==
  LET current == IF s.open_elements # <<>> THEN NameOf(s, Last(s.open_elements)) ELSE ""
      rows == {"tbody", "tfoot", "thead", "template", "html"}
  IN  IF token.type \in {"CharacterTokens", "CommentToken", "EOFToken"} THEN Call("IN_TABLE", s, token)
      ELSE IF IsStart(token, {"tr"})
      THEN Done([Call("_insert_element", _clear_stack_until(s, rows), <<"tr", TRUE>>) EXCEPT !.mode = "IN_ROW"])
      ELSE IF IsStart(token, {"td", "th"})
      THEN Reprocess([Call("_insert_element", _clear_stack_until(Call("_parse_error", s, "unexpected-cell-in-table-body"), rows), <<"tr", TRUE>>) EXCEPT !.mode = "IN_ROW"], "IN_ROW", token)
      ELSE IF IsStart(token, {"caption", "col", "colgroup", "tbody", "tfoot", "thead", "table"})
      THEN IF current = "template"
           THEN Done(Call("_parse_error", s, "unexpected-start-tag-in-template-table-context"))
           ELSE IF BareTableBodyFragment(s) THEN Done(Call("_parse_error", s, "unexpected-start-tag"))
           ELSE IF s.open_elements # <<>>
           THEN Reprocess([s EXCEPT !.open_elements = Front(@), !.mode = "IN_TABLE"], "IN_TABLE", token)
           ELSE Done([s EXCEPT !.mode = "IN_TABLE"])
      ELSE IF token.kind = START THEN Call("IN_TABLE", s, token)
      ELSE IF IsEnd(token, {"tbody", "tfoot", "thead"})
      THEN IF ~_has_in_table_scope(s, token.name) THEN Done(Call("_parse_error", s, "unexpected-end-tag"))
           ELSE Done([_pop_current(_clear_stack_until(s, rows)) EXCEPT !.mode = "IN_TABLE"])
      ELSE IF IsEnd(token, {"table"})
      THEN IF current = "template" \/ BareTableBodyFragment(s)
           THEN Done(Call("_parse_error", s, "unexpected-end-tag"))
           ELSE Reprocess([s EXCEPT !.open_elements = IF current \in {"tbody", "tfoot", "thead"}
                                                      THEN Front(@) ELSE @,
                                    !.mode = "IN_TABLE"], "IN_TABLE", token)
      ELSE IF IsEnd(token, {"caption", "col", "colgroup", "td", "th", "tr"})
      THEN Done(Call("_parse_error", s, "unexpected-end-tag"))
      ELSE Call("IN_TABLE", s, token)

_mode_in_row(s, token) ==
  IF token.type \in {"CharacterTokens", "CommentToken", "EOFToken"} THEN Call("IN_TABLE", s, token)
  ELSE IF IsStart(token, {"td", "th"})
  THEN Done([_push_formatting_marker(
               Call("_insert_element", _clear_stack_until(s, {"tr", "template", "html"}), <<token.name, TRUE>>))
               EXCEPT !.mode = "IN_CELL"])
  ELSE IF IsStart(token, {"caption", "col", "colgroup", "tbody", "tfoot", "thead", "tr", "table"})
  THEN IF ~_has_in_table_scope(s, "tr")
       THEN Done(Call("_parse_error", s, "unexpected-start-tag-implies-end-tag"))
       ELSE Reprocess(_end_tr_element(s), _end_tr_element(s).mode, token)
  ELSE IF token.kind = START THEN InBodyWith(s, token, TRUE)
  ELSE IF IsEnd(token, {"tr"})
  THEN IF ~_has_in_table_scope(s, "tr") THEN Done(Call("_parse_error", s, "unexpected-end-tag"))
       ELSE Done(_end_tr_element(s))
  ELSE IF IsEnd(token, {"table", "tbody", "tfoot", "thead"})
  THEN IF _has_in_table_scope(s, token.name)
       THEN Reprocess(_end_tr_element(s), _end_tr_element(s).mode, token)
       ELSE Done(Call("_parse_error", s, "unexpected-end-tag"))
  ELSE IF IsEnd(token, {"caption", "col", "group", "td", "th"})
  THEN Done(Call("_parse_error", s, "unexpected-end-tag"))
  ELSE InBodyWith(s, token, TRUE)

_mode_in_cell(s, token) ==
  LET cell_open == _has_in_table_scope(s, "td") \/ _has_in_table_scope(s, "th")
  IN  IF token.type = "CharacterTokens" THEN InBodyWith(s, token, FALSE)
      ELSE IF token.type = "CommentToken" THEN Done(Call("_append_comment", s, <<token.data, None>>))
      ELSE IF IsStart(token, {"caption", "col", "colgroup", "tbody", "td", "tfoot", "th", "thead", "tr"})
      THEN IF cell_open THEN Reprocess(Call("_close_table_cell", s, <<>>), Call("_close_table_cell", s, <<>>).mode, token)
           ELSE Done(Call("_parse_error", s, "unexpected-start-tag-in-cell-fragment"))
      ELSE IF token.type = "Tag" /\ token.kind = START THEN InBodyWith(s, token, FALSE)
      ELSE IF IsEnd(token, {"td", "th"})
      THEN IF ~_has_in_table_scope(s, token.name) THEN Done(Call("_parse_error", s, "unexpected-end-tag"))
           ELSE Done(Call("_end_table_cell", s, token.name))
      ELSE IF IsEnd(token, {"table", "tbody", "tfoot", "thead", "tr"})
      THEN IF ~_has_in_table_scope(s, token.name) THEN Done(Call("_parse_error", s, "unexpected-end-tag"))
           ELSE Reprocess(Call("_close_table_cell", s, <<>>), Call("_close_table_cell", s, <<>>).mode, token)
      ELSE IF token.type = "Tag" THEN InBodyWith(s, token, FALSE)
      ELSE IF cell_open THEN Reprocess(Call("_close_table_cell", s, <<>>), Call("_close_table_cell", s, <<>>).mode, token)
      ELSE Call("IN_TABLE", s, token)

(* ---------------------------------------------------------------------- *)
(* treebuilder_modes.py: select, template, after body, frameset            *)
(* ---------------------------------------------------------------------- *)

TABLE_TAGS == {"caption", "col", "colgroup", "tbody", "td", "tfoot", "th", "thead", "tr", "table"}

SELECT_ALLOWED == {"p", "div", "span", "button", "datalist", "selectedcontent"}

\* end tag of a formatting element in select: ignored when the element is below the select
SelectEndFormatting(s, name) ==
  LET fmt_index == _find_active_formatting_index(s, name)
      target == s.active_formatting[fmt_index].node
      select_node == _find_last_on_stack(s, "select")
  IN  IF fmt_index # 0 /\ InOpenElements(s, target) /\ select_node = None
      THEN Raise(s, "ValueError")
      ELSE IF fmt_index # 0 /\ InOpenElements(s, target)
         /\ IndexOf(s.open_elements, target) < IndexOf(s.open_elements, select_node)
      THEN Call("_parse_error", s, "unexpected-end-tag")
      ELSE Call("_adoption_agency", s, name)

\* end tag of an element allowed in select: pops to it unless it is below the select
SelectEndAllowed(s, name) ==
  LET names == [i \in 1..Len(s.open_elements) |-> NameOf(s, s.open_elements[i])]
      select_idx == IndexOf(names, "select")
      target_idx == LastNamed(s, {name})
  IN  IF target_idx # 0 /\ (select_idx = 0 \/ target_idx > select_idx)
      THEN [s EXCEPT !.open_elements = Prefix(@, target_idx - 1)]
      ELSE Call("_parse_error", s, "unexpected-end-tag")

_mode_in_select(s, token) ==
  LET name == token.name
      on_option == s.open_elements # <<>> /\ NameOf(s, Last(s.open_elements)) = "option"
      leave == Call("_reset_insertion_mode", _pop_until_any_inclusive(s, {"select"}), <<>>)
      leave_err(code) == Call("_reset_insertion_mode", _pop_until_any_inclusive(Call("_parse_error", s, code), {"select"}), <<>>)
  IN  IF token.type = "CharacterTokens"
      THEN Done(IF token.data # <<>>
                THEN Call("_append_text", _reconstruct_active_formatting_elements(s), token.data) ELSE s)
      ELSE IF token.type = "CommentToken" THEN Done(Call("_append_comment", s, <<token.data, None>>))
      ELSE IF token.type = "EOFToken" THEN Call("IN_BODY", s, token)
      ELSE IF token.kind = START
      THEN CASE name = "option" ->
                  Done(Call("_insert_element", _reconstruct_active_formatting_elements(
                         IF on_option THEN [s EXCEPT !.open_elements = Front(@)] ELSE s), <<name, TRUE>>))
             [] name = "select" -> Done(leave_err("unexpected-start-tag-implies-end-tag"))
             [] name \in TABLE_TAGS ->
                  Reprocess(leave_err("unexpected-start-tag-implies-end-tag"),
                            leave_err("unexpected-start-tag-implies-end-tag").mode, token)
             [] name = "template" -> Call("IN_HEAD", s, token)
             [] name \in {"svg", "math"} ->
                  Done(Call("_insert_element_in", _reconstruct_active_formatting_elements(s),
                            <<name, ~token.self_closing, name>>))
             [] name \in FORMATTING_ELEMENTS ->
                  LET entered(s1) == Done(_append_active_formatting_entry(s1, name, NewId(s1)))
                  IN  entered(Call("_insert_element", _reconstruct_active_formatting_elements(s), <<name, TRUE>>))
             [] name \in SELECT_ALLOWED ->
                  Done(Call("_insert_element", _reconstruct_active_formatting_elements(s), <<name, TRUE>>))
             [] OTHER -> Done(s)
      ELSE CASE name = "option" ->
                  Done(IF on_option THEN [s EXCEPT !.open_elements = Front(@)]
                       ELSE Call("_parse_error", s, "unexpected-end-tag"))
             [] name = "select" -> Done(leave)
             [] name \in FORMATTING_ELEMENTS -> Done(SelectEndFormatting(s, name))
             [] name \in SELECT_ALLOWED -> Done(SelectEndAllowed(s, name))
             [] name \in TABLE_TAGS ->
                  Reprocess(leave_err("unexpected-end-tag"), leave_err("unexpected-end-tag").mode, token)
             [] OTHER -> Done(Call("_parse_error", s, "unexpected-end-tag"))

HEAD_TAGS ==
  {"base", "basefont", "bgsound", "link", "meta", "noframes", "script", "style", "template", "title"}

_mode_in_template(s, token) ==
  LET switch(mode) == Reprocess([PopTemplateMode(s) EXCEPT !.template_modes = Append(@, mode),
                                                         !.mode = mode], mode, token)
  IN  IF token.type \in {"CharacterTokens", "CommentToken"} THEN Call("IN_BODY", s, token)
      ELSE IF token.type = "EOFToken"
      THEN IF LastNamed(s, {"template"}) = 0 THEN Done(s)
           ELSE LET reset(s2) == Reprocess(s2, s2.mode, token)
                IN  reset(Call("_reset_insertion_mode", PopTemplateMode(
                            _clear_active_formatting_up_to_marker(
                              Call("_pop_until_inclusive", Call("_parse_error", s, "expected-closing-tag-but-got-eof"), "template"))), <<>>))
      ELSE IF IsStart(token, {"caption", "colgroup", "tbody", "tfoot", "thead"}) THEN switch("IN_TABLE")
      ELSE IF IsStart(token, {"col"}) THEN switch("IN_COLUMN_GROUP")
      ELSE IF IsStart(token, {"tr"}) THEN switch("IN_TABLE_BODY")
      ELSE IF IsStart(token, {"td", "th"}) THEN switch("IN_ROW")
      ELSE IF token.kind = START /\ token.name \notin HEAD_TAGS THEN switch("IN_BODY")
      ELSE IF IsEnd(token, {"template"}) \/ token.name \in HEAD_TAGS THEN Call("IN_HEAD", s, token)
      ELSE Done(s)

_mode_after_body(s, token) ==
  IF token.type = "CharacterTokens"
  THEN IF is_all_whitespace(token.data) THEN Done(Call("IN_BODY", s, token))
       ELSE Reprocess(s, "IN_BODY", token)
  ELSE IF token.type = "CommentToken" THEN Done(Call("_append_comment", s, <<token.data, s.open_elements[1]>>))
  ELSE IF token.type = "Tag" THEN Reprocess(s, "IN_BODY", token)
  ELSE Done(s)

_mode_in_frameset(s, token) ==
  LET whitespace == SelectSeq(token.data, LAMBDA ch : ch \in WHITESPACE)
      popped == [s EXCEPT !.open_elements = Front(@)]
  IN  IF token.type = "CharacterTokens"
      THEN Done(IF whitespace # <<>> THEN Call("_append_text", s, whitespace) ELSE s)
      ELSE IF token.type = "CommentToken" THEN Done(Call("_append_comment", s, <<token.data, None>>))
      ELSE IF IsStart(token, {"frameset"}) THEN Done(Call("_insert_element", s, <<"frameset", TRUE>>))
      ELSE IF IsEnd(token, {"frameset"})
      THEN IF s.open_elements # <<>> /\ NameOf(s, Last(s.open_elements)) = "html"
           THEN Done(Call("_parse_error", s, "unexpected-end-tag"))
           ELSE IF s.open_elements = <<>> THEN Raise(s, "IndexError")
           ELSE Done(IF popped.open_elements # <<>>
                        /\ NameOf(popped, Last(popped.open_elements)) # "frameset"
                     THEN [popped EXCEPT !.mode = "AFTER_FRAMESET"] ELSE popped)
      ELSE IF token.type = "EOFToken"
      THEN Done(IF s.open_elements # <<>> /\ NameOf(s, Last(s.open_elements)) # "html"
                THEN Call("_parse_error", s, "expected-closing-tag-but-got-eof") ELSE s)
      ELSE Done(Call("_parse_error", s, "unexpected-token-in-frameset"))

_mode_after_frameset(s, token) ==
  LET whitespace == SelectSeq(token.data, LAMBDA ch : ch \in WHITESPACE)
  IN  IF token.type = "CharacterTokens"
      THEN Done(IF whitespace # <<>> THEN Call("_append_text", s, whitespace) ELSE s)
      ELSE IF token.type = "CommentToken" THEN Done(Call("_append_comment", s, <<token.data, None>>))
      ELSE IF token.type = "EOFToken" THEN Done(s)
      ELSE Reprocess([Call("_parse_error", s, "unexpected-token-after-frameset")
                        EXCEPT !.mode = "IN_FRAMESET"], "IN_FRAMESET", token)

(* ---------------------------------------------------------------------- *)
(* treebuilder.py: the token sink                                          *)
(* ---------------------------------------------------------------------- *)

\* _MODE_HANDLERS[self.mode](self, token), with the "in body" branch that
\* process_token inlines
ModeHandler(s, token) ==
  IF s.mode = "IN_BODY" /\ token.type = "CharacterTokens"
  THEN Done(Call("_append_text", _reconstruct_active_formatting_elements(
                           [s EXCEPT !.frameset_ok = FALSE]), token.data))
  ELSE Call(s.mode, s, token)

_should_use_foreign_content(s, token) ==
  LET current == Last(s.open_elements)
      start == token.type = "Tag" /\ token.kind = START
  IN  IF IsHtmlNamespace(s, current) THEN FALSE
      ELSE IF token.type = "EOFToken" THEN FALSE
      ELSE IF /\ _is_mathml_text_integration_point(s, current)
              /\ \/ token.type = "CharacterTokens"
                 \/ start /\ token.name \notin {"mglyph", "malignmark"}
      THEN FALSE
      ELSE IF /\ s.nodes[current].namespace = "math" /\ s.nodes[current].name = "annotation-xml"
              /\ start /\ token.name = "svg"
      THEN FALSE
      ELSE IF _is_html_integration_point(s, current) /\ (token.type = "CharacterTokens" \/ start)
      THEN FALSE
      ELSE TRUE

\* the context of a fragment is an html element, so fragment_context_element is None
_pop_until_html_or_integration_point(s) ==
  LET stops == {i \in 1..Len(s.open_elements) :
                  \/ IsHtmlNamespace(s, s.open_elements[i])
                  \/ _is_html_integration_point(s, s.open_elements[i])}
  IN  [s EXCEPT !.open_elements =
         Prefix(@, IF stops = {} THEN 0 ELSE CHOOSE i \in stops : \A j \in stops : j <= i)]

_foreign_breakout_font(tag) ==
  \E i \in 1..Len(tag.attrs) : Lower(tag.attrs[i].name) \in {"color", "face", "size"}

\* the input has no NUL character
_process_foreign_content(s, token) ==
  LET current == Last(s.open_elements)
      namespace == s.nodes[current].namespace
      breakout ==
        LET reset == Call("_reset_insertion_mode",
                          _pop_until_html_or_integration_point(
                            Call("_parse_error", s, "unexpected-html-element-in-foreign-content")), <<>>)
        IN  ReprocessAsHtml(reset, reset.mode, token)
      oe == s.open_elements
      matches == {i \in 1..Len(oe) : _lower_ascii(NameOf(s, oe[i])) = token.name}
      htmls == {i \in 1..Len(oe) : IsHtmlNamespace(s, oe[i])}
      \* the walk ends at the first node from the top that matches or is html
      ends == matches \cup htmls
      idx == CHOOSE i \in ends : \A j \in ends : j <= i
      \* the first node looked at does not match
      noted == IF Len(oe) \notin matches
               THEN Call("_parse_error", s, "unexpected-end-tag-in-foreign-content") ELSE s
  IN  IF token.type = "CharacterTokens"
      THEN Done(Call("_append_text",
                     IF is_all_whitespace(token.data) THEN s ELSE [s EXCEPT !.frameset_ok = FALSE],
                     token.data))
      ELSE IF token.type = "CommentToken"
      THEN Done(Call("_append_comment", s, <<token.data, None>>))
      ELSE IF token.kind = START
      THEN IF \/ token.name \in FOREIGN_BREAKOUT_ELEMENTS
              \/ token.name = "font" /\ _foreign_breakout_font(token)
           THEN breakout
           ELSE Done(Call("_insert_element_in", s,
                          <<IF namespace = "svg" THEN _adjust_svg_tag_name(token.name) ELSE token.name,
                            ~token.self_closing, namespace>>))
      ELSE IF token.name \in {"br", "p"} THEN breakout
      ELSE IF ends = {} THEN Done(noted)
      ELSE IF idx \in matches
      THEN IF IsHtmlNamespace(s, oe[idx]) THEN ReprocessAsHtml(noted, noted.mode, token)
           ELSE Done([noted EXCEPT !.open_elements = Prefix(@, idx - 1)])
      ELSE ReprocessAsHtml(noted, noted.mode, token)

\* the text a MathML text integration point takes without a mode handler
TextAtIntegrationPoint(s, token) ==
  Done(Call("_append_text",
            IF is_all_whitespace(token.data) THEN s
            ELSE [Call("_reconstruct_active_formatting_elements", s, <<>>)
                    EXCEPT !.frameset_ok = FALSE],
            token.data))

\* the code that handles the token at one turn of the loop of process_token:
\* the handler of a mode (named by the mode), "foreign" for
\* _process_foreign_content, "text" for TextAtIntegrationPoint
Dispatch(s, token, force_html_mode) ==
  LET current == Last(s.open_elements)
      is_html_namespace == s.open_elements = <<>> \/ IsHtmlNamespace(s, current)
      at_point == \/ _is_mathml_text_integration_point(s, current)
                  \/ _is_html_integration_point(s, current)
      is_table_mode == s.mode \in {"IN_TABLE", "IN_TABLE_BODY", "IN_ROW", "IN_CELL",
                                   "IN_CAPTION", "IN_COLUMN_GROUP"}
  IN  IF force_html_mode \/ is_html_namespace THEN s.mode
      ELSE IF _should_use_foreign_content(s, token) THEN "foreign"
      ELSE IF token.type = "CharacterTokens"
      THEN IF _is_mathml_text_integration_point(s, current) THEN "text" ELSE s.mode
      ELSE IF /\ at_point /\ token.type = "Tag" /\ token.kind = START /\ s.mode # "IN_BODY"
              /\ is_table_mode /\ ~_has_in_table_scope(s, "table")
      THEN "IN_BODY"
      ELSE s.mode

\* the entry of s.dispatched for a turn of the loop
Turn(s, handler) ==
  [mode |-> s.mode, handler |-> handler, requested |-> "", fostering |-> {},
   node |-> IF s.open_elements = <<>> THEN None ELSE Last(s.open_elements)]

\* one turn of the while True loop of process_token, up to the result of the
\* handler; s.dispatched keeps, for the call of process_token under way, the
\* mode, the current node and the handler of each turn, and the mode its
\* result asks the token to be reprocessed in
LoopTurn(s, current_token, force_html_mode) ==
  LET handler == Dispatch(s, current_token, force_html_mode)
      turn == [s EXCEPT !.dispatched = Append(@, Turn(s, handler))]
      \* the mode is restored when the handler left it at IN_BODY
      restored(r) == IF r.mode = "IN_BODY" THEN [r EXCEPT !.mode = s.mode] ELSE r
  IN  CASE handler = "foreign" -> Call("_process_foreign_content", turn, current_token)
        [] handler = "text" -> TextAtIntegrationPoint(turn, current_token)
        [] handler = s.mode -> ModeHandler(turn, current_token)
        [] OTHER -> restored(ModeHandler([turn EXCEPT !.mode = handler], current_token))

\* result is None: return result_to_return
LoopReturn(r) ==
  [r EXCEPT !.result_to_return = IF r.tokenizer_state_override # "" THEN
                                   r.tokenizer_state_override ELSE "Continue",
            !.tokenizer_state_override = ""]

\* the next turn without "self.mode = mode"
LoopWithoutMode(r) ==
  [r EXCEPT !.result = NoResult, !.dispatched[Len(r.dispatched)].requested = r.result.mode]

\* self.mode = mode, before the next turn
LoopReprocess(r) ==
  [r EXCEPT !.mode = r.result.mode, !.result = NoResult,
            !.dispatched[Len(r.dispatched)].requested = r.result.mode]

\* the loop of process_token without "self.mode = mode": the token is handled
\* once more, in the mode the handler left
LoopKeepingMode(s, current_token, force_html_mode) ==
  LET returned(r) == [r EXCEPT !.result = NoResult, !.result_to_return = "Continue",
                               !.tokenizer_state_override = ""]
      again(r) ==
        IF r.exc # "" \/ r.result = NoResult THEN returned(r)
        ELSE returned(LoopTurn([LoopReprocess(r) EXCEPT !.mode = r.mode],
                               r.result.token, r.result.force_html))
  IN  again(LoopTurn(s, current_token, force_html_mode))

RECURSIVE ReprocessLoop(_, _, _)
\* the while True loop of process_token
ReprocessLoop(s, current_token, force_html_mode) ==
  LET handled(r) ==
        IF r.exc # "" THEN r
        ELSE IF r.result = NoResult THEN LoopReturn(r)
        ELSE ReprocessLoop(LoopReprocess(r), r.result.token, r.result.force_html)
  IN  handled(LoopTurn(s, current_token, force_html_mode))

process_token(s, token) ==
  LET called == [s EXCEPT !.dispatched = <<>>, !.adopted = <<>>]
  IN  IF token.type = "DoctypeToken"
      THEN IF s.open_elements # <<>> /\ ~IsHtmlNamespace(s, Last(s.open_elements))
           THEN [Call("_parse_error", called, "unexpected-doctype")
                   EXCEPT !.result_to_return = "Continue"]
           ELSE [_handle_doctype(called, token) EXCEPT !.result_to_return = "Continue"]
      ELSE ReprocessLoop(called, token, FALSE)

process_characters(s, data) ==
  IF s.open_elements # <<>> /\ ~IsHtmlNamespace(s, Last(s.open_elements))
  THEN Call("process_token", s, CharacterTokens(data))
  ELSE IF s.mode = "IN_BODY"
  THEN IF data = <<>> THEN s
       \* no handler is dispatched
       ELSE LET s1 == Call("_reconstruct_active_formatting_elements",
                           [s EXCEPT !.dispatched = <<>>, !.adopted = <<>>], <<>>)
            IN  Call("_append_text", IF is_all_whitespace(data) THEN s1
                             ELSE [s1 EXCEPT !.frameset_ok = FALSE], data)
  ELSE Call("process_token", s, CharacterTokens(data))

(* ---------------------------------------------------------------------- *)
(* treebuilder.py: finish                                                  *)
(* ---------------------------------------------------------------------- *)

RECURSIVE Preorder(_, _)
\* the nodes of the subtree of node in document order (_find_elements' walk)
Preorder(s, node) ==
  LET kids == s.nodes[node].children
      F[i \in 0..Len(kids)] == IF i = 0 THEN <<node>> ELSE F[i - 1] \o Preorder(s, kids[i])
  IN  F[Len(kids)]

RECURSIVE clone_node(_, _)
\* clone_node(deep=True): [s |-> the object with the copy allocated, id |-> the copy]
clone_node(s, node) ==
  LET count == Len(s.nodes[node].children)
      filled(s0, copy) ==
        LET attach(r) == Call("append_child", r.s, <<copy, r.id>>)
            step(t, i) == attach(clone_node(t, t.nodes[node].children[i]))
            F[i \in 0..count] == IF i = 0 THEN s0 ELSE step(F[i - 1], i)
        IN  [s |-> F[count], id |-> copy]
      allocated(s0) == filled(s0, NewId(s0))
      shell(content) ==
        allocated(NewNode(content.s, Node(s.nodes[node].name, s.nodes[node].namespace,
                                          s.nodes[node].data, content.id)))
  IN  shell(IF IsTemplateNode(s, node) THEN clone_node(s, s.nodes[node].template_content)
            ELSE [s |-> s, id |-> None])

_clone_children(s, source, target) ==
  LET count == Len(s.nodes[source].children)
      attach(r) == Call("append_child", r.s, <<target, r.id>>)
      step(t, i) == attach(clone_node(t, t.nodes[source].children[i]))
      F[i \in 0..count] == IF i = 0 THEN s ELSE step(F[i - 1], i)
  IN  F[count]

\* no option carries a selected attribute: the first option is the source
_populate_selectedcontent(s, root) ==
  LET Named(t, node, name) == SelectSeq(Preorder(t, node), LAMBDA n : NameOf(t, n) = name)
      populate(t, found, options) ==
        IF t.exc # "" \/ found = <<>> THEN t
        ELSE IF options = <<>> THEN Raise(t, "IndexError")
        ELSE _clone_children(t, options[1], found[1])
      step(t, select) ==
        populate(t, Named(t, select, "selectedcontent"), Named(t, select, "option"))
      over(selects) ==
        LET F[i \in 0..Len(selects)] == IF i = 0 THEN s ELSE step(F[i - 1], selects[i])
        IN  F[Len(selects)]
  IN  over(Named(s, root, "select"))

\* finish that leaves the parent of the promoted children as it was
FinishKeepingParents(s) ==
  LET root == s.nodes[s.document].children[1]
      moved == s.nodes[root].children
      unwrapped ==
        [s EXCEPT !.nodes = [n \in DOMAIN @ |->
           IF n = s.document
           THEN [@[n] EXCEPT !.children = Tail(@) \o moved]
           ELSE IF n = root THEN [@[n] EXCEPT !.children = <<>>, !.parent = None]
           ELSE @[n]]]
  IN  _populate_selectedcontent(IF s.fragment_context # "" THEN unwrapped ELSE s, s.document)

finish(s) ==
  LET root == s.nodes[s.document].children[1]
      moved == s.nodes[root].children
      unwrapped ==
        [s EXCEPT !.nodes = [n \in DOMAIN @ |->
           IF n = s.document
           THEN [@[n] EXCEPT !.children = Tail(@) \o moved]
           ELSE IF n = root THEN [@[n] EXCEPT !.children = <<>>, !.parent = None]
           ELSE IF \E k \in 1..Len(moved) : moved[k] = n THEN [@[n] EXCEPT !.parent = s.document]
           ELSE @[n]]]
  IN  _populate_selectedcontent(IF s.fragment_context # "" THEN unwrapped ELSE s, s.document)

(* ---------------------------------------------------------------------- *)
(* entities.py.  Text is a sequence of characters; a decoded character     *)
(* outside ASCII is written by its code point ("U+00AC").  Of the 2231     *)
(* named references the table keeps those the input can spell; the input   *)
(* has no numeric reference ("&#").                                        *)
(* ---------------------------------------------------------------------- *)

\* NAMED_ENTITIES restricted to the names over the letters the input uses
NAMED_ENTITIES ==
  [amp |-> "&", lt |-> "<", gt |-> ">", not |-> "U+00AC", notin |-> "U+2209"]

\* LEGACY_ENTITIES, restricted likewise: "notin" needs its semicolon
LEGACY_ENTITIES == {"amp", "lt", "gt", "not"}

DIGITS == {"0", "1", "2", "3", "4", "5", "6", "7", "8", "9"}

ASCII_UPPER ==
  <<"A", "B", "C", "D", "E", "F", "G", "H", "I", "J", "K", "L", "M",
    "N", "O", "P", "Q", "R", "S", "T", "U", "V", "W", "X", "Y", "Z">>

ASCII_LOWER ==
  <<"a", "b", "c", "d", "e", "f", "g", "h", "i", "j", "k", "l", "m",
    "n", "o", "p", "q", "r", "s", "t", "u", "v", "w", "x", "y", "z">>

\* ("a" <= c <= "z") or ("A" <= c <= "Z")
IsAsciiAlpha(c) == \E i \in 1..Len(ASCII_UPPER) : c = ASCII_UPPER[i] \/ c = ASCII_LOWER[i]

\* c.isalpha() or c.isdigit(), which is c.isalnum() for the characters of the input
IsAlnum(c) == IsAsciiAlpha(c) \/ c \in DIGITS

\* buffer.find(ch, pos), with the length of the buffer for -1
Find(buffer, ch, pos) ==
  IF \E i \in (pos + 1)..Len(buffer) : buffer[i] = ch
  THEN (CHOOSE i \in (pos + 1)..Len(buffer) :
          buffer[i] = ch /\ \A j \in (pos + 1)..(i - 1) : buffer[j] # ch) - 1
  ELSE Len(buffer)

RECURSIVE JoinChars(_)
\* "".join(chars)
JoinChars(chars) == IF chars = <<>> THEN "" ELSE Head(chars) \o JoinChars(Tail(chars))

\* while j < length and (text[j].isalpha() or text[j].isdigit()): j += 1
NameEnd(text, j) ==
  LET stops == {k \in j..(Len(text) - 1) : ~IsAlnum(text[k + 1])}
  IN  IF stops = {} THEN IF j > Len(text) THEN j ELSE Len(text)
      ELSE CHOOSE k \in stops : \A m \in stops : k <= m

\* the longest k with entity_name[:k] a legacy name, 0 when there is none
LegacyPrefix(name) ==
  LET hits == {k \in 1..Len(name) :
                 /\ JoinChars(SubSeq(name, 1, k)) \in LEGACY_ENTITIES
                 /\ JoinChars(SubSeq(name, 1, k)) \in DOMAIN NAMED_ENTITIES}
  IN  IF hits = {} THEN 0 ELSE CHOOSE k \in hits : \A m \in hits : m <= k

\* decode_entities_in_text with the legacy rule of attribute values dropped
decode_as_text(text, in_attribute) ==
  LET RECURSIVE loop(_, _)
      loop(i, result) ==
        LET length == Len(text)
            next_amp == Find(text, "&", i)
            j == NameEnd(text, next_amp + 1)
            name == SubSeq(text, next_amp + 2, j)
            k == LegacyPrefix(name)
            kept == result \o SubSeq(text, i + 1, next_amp)
        IN  IF i >= length THEN result
            ELSE IF next_amp = length THEN result \o SubSeq(text, i + 1, length)
            ELSE IF name = <<>> THEN loop(next_amp + 1, Append(kept, "&"))
            ELSE IF j < length /\ text[j + 1] = ";" /\ JoinChars(name) \in DOMAIN NAMED_ENTITIES
            THEN loop(j + 1, Append(kept, NAMED_ENTITIES[JoinChars(name)]))
            ELSE IF k > 0
            THEN loop(next_amp + 1 + k, Append(kept, NAMED_ENTITIES[JoinChars(SubSeq(name, 1, k))]))
            ELSE loop(next_amp + 1, Append(kept, "&"))
  IN  loop(0, <<>>)

decode_entities_in_text(text, in_attribute) ==
  LET length == Len(text)
      RECURSIVE loop(_, _)
      loop(i, result) ==
        LET next_amp == Find(text, "&", i)
            \* the text before the "&" is copied
            kept == result \o SubSeq(text, i + 1, next_amp)
            j == NameEnd(text, next_amp + 1)
            entity_name == SubSeq(text, next_amp + 2, j)
            joined == JoinChars(entity_name)
            has_semicolon == j < length /\ text[j + 1] = ";"
            next_char == IF j < length THEN text[j + 1] ELSE ""
            best_match_len == LegacyPrefix(entity_name)
            best_match == NAMED_ENTITIES[JoinChars(SubSeq(entity_name, 1, best_match_len))]
        IN  IF i >= length THEN result
            ELSE IF next_amp = length THEN result \o SubSeq(text, i + 1, length)
            ELSE IF entity_name = <<>> THEN loop(next_amp + 1, Append(kept, "&"))
            \* exact match, with its semicolon
            ELSE IF has_semicolon /\ joined \in DOMAIN NAMED_ENTITIES
            THEN loop(j + 1, Append(kept, NAMED_ENTITIES[joined]))
            \* semicolon but no exact match: legacy prefix, in text only
            ELSE IF has_semicolon /\ ~in_attribute /\ best_match_len > 0
            THEN loop(next_amp + 1 + best_match_len, Append(kept, best_match))
            \* a legacy name without semicolon
            ELSE IF joined \in LEGACY_ENTITIES /\ joined \in DOMAIN NAMED_ENTITIES
            THEN IF in_attribute /\ next_char # "" /\ (IsAlnum(next_char) \/ next_char = "=")
                 THEN loop(next_amp + 1, Append(kept, "&"))
                 ELSE loop(j, Append(kept, NAMED_ENTITIES[joined]))
            \* the longest legacy prefix
            ELSE IF best_match_len > 0
            THEN IF in_attribute THEN loop(next_amp + 1, Append(kept, "&"))
                 ELSE loop(next_amp + 1 + best_match_len, Append(kept, best_match))
            \* no match
            ELSE IF has_semicolon
            THEN loop(j + 1, kept \o SubSeq(text, next_amp + 1, j + 1))
            ELSE loop(next_amp + 1, Append(kept, "&"))
  IN  loop(0, <<>>)

(* ---------------------------------------------------------------------- *)
(* tokenizer.py.  p is the tokenizer together with its sink:               *)
(* p.t the Tokenizer object, p.sink the TreeBuilder it feeds.  The input   *)
(* is a sequence of one-character strings; None as a character is "".      *)
(* Modelled: the data, tag, attribute, self-closing, bogus comment,        *)
(* RCDATA, RAWTEXT and PLAINTEXT states, for input without NUL.  A tag      *)
(* name and an attribute name are strings, text and attribute values are   *)
(* sequences of characters.                                                *)
(* ---------------------------------------------------------------------- *)

_RCDATA_ELEMENTS == {"title", "textarea"}

_RAWTEXT_SWITCH_TAGS ==
  {"script", "style", "xmp", "iframe", "noembed", "noframes", "textarea", "title"}

\* chr(ord(c) + 32) for an upper-case letter, str.translate(_ASCII_LOWER_TABLE)
AsciiLower(c) ==
  IF \E i \in 1..Len(ASCII_UPPER) : c = ASCII_UPPER[i]
  THEN ASCII_LOWER[CHOOSE i \in 1..Len(ASCII_UPPER) : c = ASCII_UPPER[i]]
  ELSE c

\* Tokenizer.__init__ followed by initialize(html) under opts.initial_state
\* and opts.initial_rawtext_tag
TokenizerIn(html, collect_errors, initial_state, initial_rawtext_tag) ==
  [state |-> initial_state, buffer |-> html, length |-> Len(html), pos |-> 0,
   reconsume |-> FALSE, current_char |-> "", ignore_lf |-> FALSE, text_buffer |-> <<>>,
   current_tag_name |-> "", current_tag_attrs |-> <<>>, current_attr_name |-> "",
   current_attr_value |-> <<>>, current_attr_value_has_amp |-> FALSE,
   current_tag_self_closing |-> FALSE, current_tag_kind |-> START,
   current_comment |-> <<>>, last_start_tag_name |-> "",
   rawtext_tag_name |-> initial_rawtext_tag, original_tag_name |-> <<>>,
   _tag_token |-> Tag(START, ""),
   errors |-> <<>>, collect_errors |-> collect_errors,
   switched_to_rawtext |-> FALSE, eof |-> FALSE,
   delivered |-> 0, eof_at |-> <<>>]

Tokenizer(html, collect_errors) == TokenizerIn(html, collect_errors, "DATA", "")

\* Tokenizer._emit_error; the rank is shared with the tree builder's errors
_emit_error(p, code) ==
  IF ~p.t.collect_errors THEN p
  ELSE [p EXCEPT !.t.errors = Append(@, [code |-> code, order |-> p.sink.recorded + 1]),
                 !.sink.recorded = @ + 1]

\* Tokenizer._append_text
Tokenizer_append_text(p, text) == [p EXCEPT !.t.text_buffer = @ \o text]

\* Tokenizer._append_text_chunk
_append_text_chunk(p, chunk) ==
  [Tokenizer_append_text(p, chunk) EXCEPT !.t.ignore_lf = (Last(chunk) = "\r")]

\* an exception raised by the sink unwinds the tokenizer: nothing more is done
Unwinding(p) == p.sink.exc # ""

\* the states from RAWTEXT (44) upwards and the three CDATA states (37..39):
\* text flushed under them is passed on as it is
UNDECODED_STATES ==
  {"RAWTEXT", "RAWTEXT_LESS_THAN_SIGN", "RAWTEXT_END_TAG_OPEN", "RAWTEXT_END_TAG_NAME",
   "PLAINTEXT", "SCRIPT_DATA_ESCAPED", "CDATA_SECTION", "CDATA_SECTION_BRACKET",
   "CDATA_SECTION_END"}

_flush_text(p) ==
  LET data == p.t.text_buffer
      decoded == IF p.t.state \notin UNDECODED_STATES /\ \E i \in 1..Len(data) : data[i] = "&"
                 THEN decode_entities_in_text(data, FALSE) ELSE data
  IN  IF Unwinding(p) \/ data = <<>> THEN p
      ELSE [p EXCEPT !.t.text_buffer = <<>>, !.t.delivered = @ + 1,
                     !.sink = Call("process_characters", p.sink, decoded)]

\* t.delivered counts the calls into the sink, t.eof_at holds the count at
\* each call that delivered an EOFToken
_emit_token(p, token) ==
  IF Unwinding(p) THEN p
  ELSE [p EXCEPT !.t.delivered = @ + 1,
                 !.t.eof_at = IF token.type = "EOFToken" THEN Append(@, p.t.delivered + 1) ELSE @,
                 !.sink = Call("process_token", p.sink, token)]

\* the handler returns False at the end of input: run() calls step() again
ReturnFalse(p) == p

\* the handler returns True: end of input reached
ReturnTrue(p) == [p EXCEPT !.t.eof = TRUE]

_append_attr_value_char(p, c) == [p EXCEPT !.t.current_attr_value = Append(@, c)]

\* the attribute started last is forgotten: current_attr_name.clear(),
\* current_attr_value.clear(), current_attr_value_has_amp = False
ClearAttribute(p) ==
  [p EXCEPT !.t.current_attr_name = "", !.t.current_attr_value = <<>>,
            !.t.current_attr_value_has_amp = FALSE]

\* current_tag_attrs is the dict in insertion order, as a sequence of items
HasAttr(attrs, name) == \E i \in 1..Len(attrs) : attrs[i].name = name

_finish_attribute(p) ==
  LET name == p.t.current_attr_name
      attrs == p.t.current_tag_attrs
      is_duplicate == HasAttr(attrs, name)
      value == IF p.t.current_attr_value_has_amp
               THEN decode_entities_in_text(p.t.current_attr_value, TRUE)
               ELSE p.t.current_attr_value
  IN  IF name = "" THEN p
      ELSE IF is_duplicate
      THEN [_emit_error([p EXCEPT !.t.current_attr_name = ""], "duplicate-attribute")
              EXCEPT !.t.current_attr_value = <<>>, !.t.current_attr_value_has_amp = FALSE]
      ELSE [p EXCEPT !.t.current_attr_name = "",
                     !.t.current_tag_attrs = Append(attrs, [name |-> name, value |-> value]),
                     !.t.current_attr_value = <<>>, !.t.current_attr_value_has_amp = FALSE]

\* the value returned is left in p.t.switched_to_rawtext
_emit_current_tag(p) ==
  LET name == p.t.current_tag_name
      kind == p.t.current_tag_kind
      tag == TagWith(kind, name, p.t.current_tag_attrs, p.t.current_tag_self_closing)
      stack == p.sink.open_elements
      namespace == IF stack # <<>> THEN p.sink.nodes[Last(stack)].namespace ELSE "html"
      switch == /\ kind = START
                /\ name \in _RAWTEXT_SWITCH_TAGS \/ name = "plaintext"
                /\ namespace = "html"
      state == IF ~switch THEN p.t.state
               ELSE IF name \in _RCDATA_ELEMENTS THEN "RCDATA"
               ELSE IF name \in _RAWTEXT_SWITCH_TAGS THEN "RAWTEXT"
               ELSE "PLAINTEXT"
      prepared == [p EXCEPT !.t.current_tag_attrs = <<>>, !.t._tag_token = tag,
                            !.t.last_start_tag_name = IF kind = START THEN name ELSE @,
                            !.t.state = state,
                            !.t.rawtext_tag_name = IF switch /\ name # "plaintext" THEN name ELSE @,
                            !.t.switched_to_rawtext = switch]
      replied(g) == IF ~Unwinding(g) /\ g.sink.result_to_return = "Plaintext"
                    THEN [g EXCEPT !.t.state = "PLAINTEXT", !.t.switched_to_rawtext = TRUE]
                    ELSE g
  IN  [replied(Call("_emit_token", prepared, tag))
         EXCEPT !.t.current_tag_name = "", !.t.current_attr_name = "",
                !.t.current_attr_value = <<>>, !.t.current_tag_self_closing = FALSE,
                !.t.current_tag_kind = START]

\* if not self._emit_current_tag(): self.state = self.DATA
EmitOrData(p) ==
  LET closed(emitted) == IF emitted.t.switched_to_rawtext THEN emitted
                         ELSE [emitted EXCEPT !.t.state = "DATA"]
  IN  closed(Call("_emit_current_tag", p, <<>>))

_emit_comment(p) ==
  Call("_emit_token", [p EXCEPT !.t.current_comment = <<>>], CommentToken(p.t.current_comment))

\* the character read is left in p.t.current_char
_get_char(p) ==
  LET buffer == p.t.buffer
      skip == p.t.ignore_lf /\ p.t.pos < p.t.length /\ buffer[p.t.pos + 1] = "\n"
      pos == IF skip THEN p.t.pos + 1 ELSE p.t.pos
      g == IF skip THEN [p EXCEPT !.t.ignore_lf = FALSE] ELSE p
  IN  IF p.t.reconsume THEN [p EXCEPT !.t.reconsume = FALSE]
      ELSE IF pos >= p.t.length THEN [g EXCEPT !.t.pos = pos, !.t.current_char = ""]
      ELSE IF buffer[pos + 1] = "\r"
      THEN [g EXCEPT !.t.ignore_lf = TRUE, !.t.current_char = "\n", !.t.pos = pos + 1]
      ELSE [g EXCEPT !.t.ignore_lf = FALSE, !.t.current_char = buffer[pos + 1], !.t.pos = pos + 1]

_reconsume_current(p) == [p EXCEPT !.t.reconsume = TRUE]

\* the first position from pos on whose character is one of stops, the
\* length of the buffer when there is none: pattern.search(buffer, pos).start()
\* for a character class, pattern.match(buffer, pos).end() for its complement
FindAny(buffer, stops, pos) ==
  LET hits == {i \in pos..(Len(buffer) - 1) : buffer[i + 1] \in stops}
  IN  IF hits = {} THEN Len(buffer) ELSE CHOOSE i \in hits : \A j \in hits : i <= j

\* the first position from pos on whose character is none of chars:
\* pattern.match(buffer, pos).end() for the class chars, pos when nothing matches
SkipAll(buffer, chars, pos) ==
  LET hits == {i \in pos..(Len(buffer) - 1) : buffer[i + 1] \notin chars}
  IN  IF hits = {} THEN IF pos > Len(buffer) THEN pos ELSE Len(buffer)
      ELSE CHOOSE i \in hits : \A j \in hits : i <= j

RECURSIVE NormalizeNewlines(_)
\* chunk.replace("\r\n", "\n").replace("\r", "\n")
NormalizeNewlines(chunk) ==
  IF chunk = <<>> THEN <<>>
  ELSE IF Head(chunk) = "\r"
  THEN <<"\n">> \o NormalizeNewlines(
         IF Len(chunk) > 1 /\ chunk[2] = "\n" THEN Tail(Tail(chunk)) ELSE Tail(chunk))
  ELSE <<Head(chunk)>> \o NormalizeNewlines(Tail(chunk))

RECURSIVE LowerJoin(_)
\* "".join of the lower-cased characters
LowerJoin(chars) == IF chars = <<>> THEN "" ELSE AsciiLower(Head(chars)) \o LowerJoin(Tail(chars))

TAG_NAME_TERMINATORS == {"\t", "\n", "\f", " ", "/", ">", "\r"}

ATTR_NAME_TERMINATORS == {"\t", "\n", "\f", " ", "/", ">", "=", "\"", "'", "<", "\r"}

\* the grave accent is written by its code point
_ATTR_VALUE_UNQUOTED_TERMINATORS ==
  {"\t", "\n", "\f", " ", ">", "&", "\"", "'", "<", "=", "U+0060", "\r"}

\* the characters of _WHITESPACE_PATTERN
TAG_WHITESPACE == {" ", "\t", "\n", "\f"}

_state_self_closing_start_tag(p) ==
  LET read(g, c) ==
        IF c = ""
        THEN ReturnTrue(Call("_emit_token", Call("_flush_text", _emit_error(g, "eof-in-tag"), <<>>), EOFToken))
        ELSE IF c = ">"
        THEN [Call("_emit_current_tag", [g EXCEPT !.t.current_tag_self_closing = TRUE], <<>>)
                EXCEPT !.t.state = "DATA"]
        ELSE [_reconsume_current(_emit_error(g, "unexpected-character-after-solidus-in-tag"))
                EXCEPT !.t.state = "BEFORE_ATTRIBUTE_NAME"]
      got(g) == read(g, g.t.current_char)
  IN  got(_get_char(p))

_state_after_attribute_value_quoted(p) ==
  LET read(g, c) ==
        IF c = ""
        THEN ReturnTrue(Call("_emit_token", Call("_flush_text", _emit_error(g, "eof-in-tag"), <<>>), EOFToken))
        ELSE IF c \in TAG_WHITESPACE
        THEN [Call("_finish_attribute", g, <<>>) EXCEPT !.t.state = "BEFORE_ATTRIBUTE_NAME"]
        ELSE IF c = "/"
        THEN [Call("_finish_attribute", g, <<>>) EXCEPT !.t.state = "SELF_CLOSING_START_TAG"]
        ELSE IF c = ">" THEN Call("EmitOrData", Call("_finish_attribute", g, <<>>), <<>>)
        ELSE [_reconsume_current(Call("_finish_attribute", _emit_error(g, "missing-whitespace-between-attributes"), <<>>))
                EXCEPT !.t.state = "BEFORE_ATTRIBUTE_NAME"]
      got(g) == read(g, g.t.current_char)
  IN  got(_get_char(p))

RECURSIVE AttributeValueQuoted(_, _)
\* the body _state_attribute_value_double and _state_attribute_value_single
\* share, quote being the character that ends the value
AttributeValueQuoted(p, quote) ==
  LET buffer == p.t.buffer
      length == p.t.length
      pos == p.t.pos
      end == FindAny(buffer, {quote, "&"}, pos)
      chunk == NormalizeNewlines(SubSeq(buffer, pos + 1, end))
      consumed == IF pos < length /\ end > pos
                  THEN [p EXCEPT !.t.current_attr_value = @ \o chunk, !.t.pos = end]
                  ELSE p
      read(g) ==
        IF g.t.pos >= length
        THEN ReturnTrue(Call("_emit_token", _emit_error([g EXCEPT !.t.current_char = ""], "eof-in-tag"), EOFToken))
        ELSE LET c == buffer[g.t.pos + 1]
                 taken == [g EXCEPT !.t.pos = @ + 1, !.t.current_char = c]
             IN  IF c = quote
                 THEN Call("_state_after_attribute_value_quoted", [taken EXCEPT !.t.state = "AFTER_ATTRIBUTE_VALUE_QUOTED"], <<>>)
                 ELSE Call("AttributeValueQuoted", [_append_attr_value_char(taken, "&")
                           EXCEPT !.t.current_attr_value_has_amp = TRUE], quote)
  IN  read(consumed)

_state_attribute_value_double(p) == Call("AttributeValueQuoted", p, "\"")

_state_attribute_value_single(p) == Call("AttributeValueQuoted", p, "'")

RECURSIVE _state_attribute_value_unquoted(_)
_state_attribute_value_unquoted(p) ==
  LET buffer == p.t.buffer
      pos == p.t.pos
      end == FindAny(buffer, _ATTR_VALUE_UNQUOTED_TERMINATORS, pos)
      consumed == IF ~p.t.reconsume /\ pos < p.t.length /\ end > pos
                  THEN [p EXCEPT !.t.current_attr_value = @ \o SubSeq(buffer, pos + 1, end),
                                 !.t.pos = end]
                  ELSE p
      read(g, c) ==
        IF c = "" THEN ReturnTrue(Call("_emit_token", _emit_error(g, "eof-in-tag"), EOFToken))
        ELSE IF c \in TAG_WHITESPACE
        THEN [Call("_finish_attribute", g, <<>>) EXCEPT !.t.state = "BEFORE_ATTRIBUTE_NAME"]
        ELSE IF c = ">" THEN Call("EmitOrData", Call("_finish_attribute", g, <<>>), <<>>)
        ELSE IF c = "&"
        THEN Call("_state_attribute_value_unquoted", [_append_attr_value_char(g, "&") EXCEPT !.t.current_attr_value_has_amp = TRUE], <<>>)
        ELSE Call("_state_attribute_value_unquoted", _append_attr_value_char(
               IF c \in {"\"", "'", "<", "=", "U+0060"}
               THEN _emit_error(g, "unexpected-character-in-unquoted-attribute-value")
               ELSE g, c), <<>>)
      got(g) == read(g, g.t.current_char)
  IN  got(_get_char(consumed))

RECURSIVE _state_before_attribute_value(_)
_state_before_attribute_value(p) ==
  LET read(g, c) ==
        IF c = ""
        THEN ReturnTrue(Call("_emit_token", Call("_flush_text", _emit_error(g, "eof-in-tag"), <<>>), EOFToken))
        ELSE IF c \in TAG_WHITESPACE THEN Call("_state_before_attribute_value", g, <<>>)
        ELSE IF c = "\""
        THEN Call("_state_attribute_value_double", [g EXCEPT !.t.state = "ATTRIBUTE_VALUE_DOUBLE"], <<>>)
        ELSE IF c = "'"
        THEN Call("_state_attribute_value_single", [g EXCEPT !.t.state = "ATTRIBUTE_VALUE_SINGLE"], <<>>)
        ELSE IF c = ">"
        THEN Call("EmitOrData", Call("_finish_attribute", _emit_error(g, "missing-attribute-value"), <<>>), <<>>)
        ELSE Call("_state_attribute_value_unquoted", [_reconsume_current(g) EXCEPT !.t.state = "ATTRIBUTE_VALUE_UNQUOTED"], <<>>)
      got(g) == read(g, g.t.current_char)
  IN  got(_get_char(p))

RECURSIVE _state_attribute_name(_)
_state_attribute_name(p) ==
  LET buffer == p.t.buffer
      length == p.t.length
      pos == p.t.pos
      matched == /\ ~p.t.reconsume /\ ~p.t.ignore_lf
                 /\ pos < length /\ buffer[pos + 1] \notin ATTR_NAME_TERMINATORS
      end == FindAny(buffer, ATTR_NAME_TERMINATORS, pos)
      run == [p EXCEPT !.t.current_attr_name = @ \o LowerJoin(SubSeq(buffer, pos + 1, end)),
                       !.t.pos = end]
      after == IF end < length THEN buffer[end + 1] ELSE ""
      taken == [run EXCEPT !.t.pos = end + 1]
      read(g, c) ==
        IF c = ""
        THEN ReturnTrue(Call("_emit_token", Call("_flush_text", _emit_error(g, "eof-in-tag"), <<>>), EOFToken))
        ELSE IF c \in TAG_WHITESPACE
        THEN [Call("_finish_attribute", g, <<>>) EXCEPT !.t.state = "AFTER_ATTRIBUTE_NAME"]
        ELSE IF c = "/"
        THEN Call("_state_self_closing_start_tag", [Call("_finish_attribute", g, <<>>) EXCEPT !.t.state = "SELF_CLOSING_START_TAG"], <<>>)
        ELSE IF c = "="
        THEN Call("_state_before_attribute_value", [g EXCEPT !.t.state = "BEFORE_ATTRIBUTE_VALUE"], <<>>)
        ELSE IF c = ">" THEN Call("EmitOrData", Call("_finish_attribute", g, <<>>), <<>>)
        ELSE Call("_state_attribute_name", [(IF c \in {"\"", "'", "<"}
                 THEN _emit_error(g, "unexpected-character-in-attribute-name") ELSE g)
                  EXCEPT !.t.current_attr_name = @ \o c], <<>>)
      got(g) == read(g, g.t.current_char)
  IN  IF matched /\ after = "="
      THEN Call("_state_before_attribute_value", [taken EXCEPT !.t.state = "BEFORE_ATTRIBUTE_VALUE"], <<>>)
      ELSE IF matched /\ after \in {" ", "\t", "\n", "\f", "\r"}
      THEN [Call("_finish_attribute", [taken EXCEPT !.t.ignore_lf = IF after = "\r" THEN TRUE ELSE @], <<>>)
              EXCEPT !.t.state = "AFTER_ATTRIBUTE_NAME"]
      ELSE IF matched /\ after = ">" THEN Call("EmitOrData", Call("_finish_attribute", taken, <<>>), <<>>)
      ELSE IF matched /\ after = "/"
      THEN Call("_state_self_closing_start_tag", [Call("_finish_attribute", taken, <<>>) EXCEPT !.t.state = "SELF_CLOSING_START_TAG"], <<>>)
      ELSE got(_get_char(IF matched THEN run ELSE p))

\* the start of an attribute name: the three buffers are reset and c, in
\* lower case, opens the name
StartAttribute(p, c) ==
  [ClearAttribute(p) EXCEPT !.t.current_attr_name = AsciiLower(c), !.t.state = "ATTRIBUTE_NAME"]

RECURSIVE _state_after_attribute_name(_)
_state_after_attribute_name(p) ==
  LET buffer == p.t.buffer
      length == p.t.length
      skipped == IF ~p.t.reconsume /\ ~p.t.ignore_lf /\ p.t.pos < length
                 THEN [p EXCEPT !.t.pos = SkipAll(buffer, TAG_WHITESPACE, p.t.pos)] ELSE p
      c == IF skipped.t.pos >= length THEN "" ELSE buffer[skipped.t.pos + 1]
      taken == [skipped EXCEPT !.t.pos = IF c = "" THEN @ ELSE @ + 1, !.t.current_char = c]
      settled == [taken EXCEPT !.t.ignore_lf = FALSE]
  IN  IF c \in {" ", "\n", "\t", "\f"} THEN Call("_state_after_attribute_name", settled, <<>>)
      ELSE IF c = "\r" THEN Call("_state_after_attribute_name", [taken EXCEPT !.t.ignore_lf = TRUE], <<>>)
      ELSE IF c = ""
      THEN ReturnTrue(Call("_emit_token", Call("_flush_text", _emit_error(settled, "eof-in-tag"), <<>>), EOFToken))
      ELSE IF c = "/"
      THEN [Call("_finish_attribute", settled, <<>>) EXCEPT !.t.state = "SELF_CLOSING_START_TAG"]
      ELSE IF c = "=" THEN [settled EXCEPT !.t.state = "BEFORE_ATTRIBUTE_VALUE"]
      ELSE IF c = ">" THEN Call("EmitOrData", Call("_finish_attribute", settled, <<>>), <<>>)
      ELSE Call("StartAttribute", Call("_finish_attribute", settled, <<>>), c)

RECURSIVE _state_before_attribute_name(_)
_state_before_attribute_name(p) ==
  LET buffer == p.t.buffer
      length == p.t.length
      skipped == IF ~p.t.reconsume /\ ~p.t.ignore_lf /\ p.t.pos < length
                 THEN [p EXCEPT !.t.pos = SkipAll(buffer, TAG_WHITESPACE, p.t.pos)] ELSE p
      c == IF skipped.t.reconsume THEN skipped.t.current_char
           ELSE IF skipped.t.pos >= length THEN ""
           ELSE buffer[skipped.t.pos + 1]
      taken == [skipped EXCEPT !.t.reconsume = FALSE, !.t.current_char = c,
                  !.t.pos = IF skipped.t.reconsume \/ skipped.t.pos >= length THEN @ ELSE @ + 1]
      settled == [taken EXCEPT !.t.ignore_lf = FALSE]
  IN  IF c \in {" ", "\t", "\f"} THEN Call("_state_before_attribute_name", settled, <<>>)
      ELSE IF c = "\n" THEN Call("_state_before_attribute_name", settled, <<>>)
      ELSE IF c = "\r"
      THEN Call("_state_before_attribute_name", [settled EXCEPT !.t.pos =
                IF @ < length /\ buffer[@ + 1] = "\n" THEN @ + 1 ELSE @], <<>>)
      ELSE IF c = ""
      THEN ReturnTrue(Call("_emit_token", Call("_flush_text", _emit_error(taken, "eof-in-tag"), <<>>), EOFToken))
      ELSE IF c = "/" THEN [taken EXCEPT !.t.state = "SELF_CLOSING_START_TAG"]
      ELSE IF c = ">" THEN Call("EmitOrData", Call("_finish_attribute", taken, <<>>), <<>>)
      ELSE IF c = "="
      THEN [ClearAttribute(_emit_error(taken, "unexpected-equals-sign-before-attribute-name"))
              EXCEPT !.t.current_attr_name = "=", !.t.state = "ATTRIBUTE_NAME"]
      ELSE Call("StartAttribute", taken, c)

_state_tag_name(p) ==
  LET buffer == p.t.buffer
      length == p.t.length
      pos == p.t.pos
      matched == pos < length /\ buffer[pos + 1] \notin TAG_NAME_TERMINATORS
      end == FindAny(buffer, TAG_NAME_TERMINATORS, pos)
      run == [p EXCEPT !.t.current_tag_name = @ \o LowerJoin(SubSeq(buffer, pos + 1, end)),
                       !.t.pos = end]
      after == IF end < length THEN buffer[end + 1] ELSE ""
      taken == [run EXCEPT !.t.pos = end + 1]
      read(g, c) ==
        IF c = "" THEN ReturnTrue(Call("_emit_token", _emit_error(g, "eof-in-tag"), EOFToken))
        ELSE IF c \in TAG_WHITESPACE
        THEN Call("_state_before_attribute_name", [g EXCEPT !.t.state = "BEFORE_ATTRIBUTE_NAME"], <<>>)
        ELSE IF c = "/"
        THEN Call("_state_self_closing_start_tag", [g EXCEPT !.t.state = "SELF_CLOSING_START_TAG"], <<>>)
        ELSE [Call("_emit_current_tag", g, <<>>) EXCEPT !.t.state = "DATA"]
      got(g) == read(g, g.t.current_char)
  IN  IF matched /\ after \in {" ", "\t", "\n", "\f", "\r"}
      THEN Call("_state_before_attribute_name", [taken EXCEPT !.t.ignore_lf = IF after = "\r" THEN TRUE ELSE @,
                           !.t.state = "BEFORE_ATTRIBUTE_NAME"], <<>>)
      ELSE IF matched /\ after = ">" THEN Call("EmitOrData", taken, <<>>)
      ELSE IF matched /\ after = "/"
      THEN Call("_state_self_closing_start_tag", [taken EXCEPT !.t.state = "SELF_CLOSING_START_TAG"], <<>>)
      ELSE got(_get_char(IF matched THEN run ELSE p))

_state_tag_open(p) ==
  LET read(g, c) ==
        IF c = ""
        THEN ReturnTrue(Call("_emit_token", Call("_flush_text", Tokenizer_append_text(
               _emit_error(g, "eof-before-tag-name"), <<"<">>), <<>>), EOFToken))
        ELSE IF c = "!" THEN [g EXCEPT !.t.state = "MARKUP_DECLARATION_OPEN"]
        ELSE IF c = "/" THEN [g EXCEPT !.t.state = "END_TAG_OPEN"]
        ELSE IF c = "?"
        THEN [_reconsume_current(_emit_error(g, "unexpected-question-mark-instead-of-tag-name"))
                EXCEPT !.t.current_comment = <<>>, !.t.state = "BOGUS_COMMENT"]
        ELSE [_reconsume_current(Tokenizer_append_text(
                _emit_error(g, "invalid-first-character-of-tag-name"), <<"<">>))
                EXCEPT !.t.state = "DATA"]
      got(g) == read(g, g.t.current_char)
  IN  got(_get_char(p))

_state_end_tag_open(p) ==
  LET read(g, c) ==
        IF c = ""
        THEN ReturnTrue(Call("_emit_token", Call("_flush_text", Tokenizer_append_text(
               _emit_error(g, "eof-before-tag-name"), <<"<", "/">>), <<>>), EOFToken))
        ELSE IF c = ">" THEN [_emit_error(g, "empty-end-tag") EXCEPT !.t.state = "DATA"]
        ELSE [_reconsume_current(_emit_error(g, "invalid-first-character-of-tag-name"))
                EXCEPT !.t.current_comment = <<>>, !.t.state = "BOGUS_COMMENT"]
      got(g) == read(g, g.t.current_char)
  IN  got(_get_char(p))

\* whether the input at pos starts with literal, compared through fold
SegmentIs(p, literal, fold(_)) ==
  LET end == p.t.pos + Len(literal)
  IN  /\ end <= p.t.length
      /\ \A i \in 1..Len(literal) : fold(p.t.buffer[p.t.pos + i]) = fold(literal[i])

Same(c) == c

\* the value returned is whether pos moved
_consume_if(p, literal) ==
  IF SegmentIs(p, literal, Same) THEN [p EXCEPT !.t.pos = @ + Len(literal)] ELSE p

_consume_case_insensitive(p, literal) ==
  IF SegmentIs(p, literal, AsciiLower) THEN [p EXCEPT !.t.pos = @ + Len(literal)] ELSE p

DOCTYPE_LITERAL == <<"D", "O", "C", "T", "Y", "P", "E">>

CDATA_LITERAL == <<"[", "C", "D", "A", "T", "A", "[">>

_state_markup_declaration_open(p) ==
  LET stack == p.sink.open_elements
      foreign == stack # <<>> /\ p.sink.nodes[Last(stack)].namespace \notin {"", "html"}
      doctype == _consume_case_insensitive(p, DOCTYPE_LITERAL)
      cdata == _consume_if(p, CDATA_LITERAL)
  IN  IF doctype.t.pos # p.t.pos THEN [doctype EXCEPT !.t.state = "DOCTYPE"]
      ELSE IF cdata.t.pos # p.t.pos
      THEN IF foreign THEN [cdata EXCEPT !.t.state = "CDATA_SECTION"]
           ELSE [_emit_error(cdata, "cdata-in-html-content")
                   EXCEPT !.t.current_comment = CDATA_LITERAL, !.t.state = "BOGUS_COMMENT"]
      ELSE [_emit_error(p, "incorrectly-opened-comment")
              EXCEPT !.t.current_comment = <<>>, !.t.state = "BOGUS_COMMENT"]

RECURSIVE _state_bogus_comment(_)
_state_bogus_comment(p) ==
  LET read(g, c) ==
        IF c = "" THEN ReturnTrue(Call("_emit_token", Call("_emit_comment", g, <<>>), EOFToken))
        ELSE IF c = ">" THEN [Call("_emit_comment", g, <<>>) EXCEPT !.t.state = "DATA"]
        ELSE Call("_state_bogus_comment", [g EXCEPT !.t.current_comment = Append(@, c)], <<>>)
      got(g) == read(g, g.t.current_char)
  IN  got(_get_char(p))

_state_data(p) ==
  LET buffer == p.t.buffer
      length == p.t.length
      pos0 == IF p.t.reconsume THEN p.t.pos - 1 ELSE p.t.pos
      next_lt == Find(buffer, "<", pos0)
      p1 == [p EXCEPT !.t.reconsume = FALSE, !.t.pos = pos0]
      at(i) == IF i < length THEN buffer[i + 1] ELSE ""
      scanned(p2) ==
        LET pos == p2.t.pos + 1
            p3 == [p2 EXCEPT !.t.pos = pos, !.t.current_char = "<", !.t.ignore_lf = FALSE]
            start_tag(kind, first, consumed) ==
              Call("_state_tag_name", [ClearAttribute(Call("_flush_text", p3, <<>>)) EXCEPT
                 !.t.current_tag_kind = kind, !.t.current_tag_name = AsciiLower(first),
                 !.t.current_tag_self_closing = FALSE,
                 !.t.pos = pos + consumed, !.t.state = "TAG_NAME"], <<>>)
        IN  IF p2.t.pos >= length
            THEN ReturnTrue(Call("_emit_token", Call("_flush_text", [p2 EXCEPT !.t.pos = length, !.t.current_char = ""], <<>>), EOFToken))
            ELSE IF IsAsciiAlpha(at(pos)) THEN start_tag(START, at(pos), 1)
            ELSE IF at(pos) = "!" /\ at(pos + 1) = "-" /\ at(pos + 2) = "-"
            THEN [Call("_flush_text", p3, <<>>) EXCEPT !.t.pos = pos + 3, !.t.current_comment = <<>>,
                                         !.t.state = "COMMENT_START"]
            ELSE IF at(pos) = "/" /\ IsAsciiAlpha(at(pos + 1)) THEN start_tag(END, at(pos + 1), 2)
            ELSE Call("_state_tag_open", [Call("_flush_text", p3, <<>>) EXCEPT !.t.state = "TAG_OPEN"], <<>>)
  IN  scanned(IF next_lt > pos0
              THEN [Tokenizer_append_text(p1, NormalizeNewlines(SubSeq(buffer, pos0 + 1, next_lt)))
                      EXCEPT !.t.pos = next_lt, !.t.ignore_lf = FALSE]
              ELSE p1)

RECURSIVE _state_rcdata(_)
_state_rcdata(p) ==
  LET buffer == p.t.buffer
      length == p.t.length
      at_end == p.t.reconsume /\ p.t.current_char = ""
      pos == IF p.t.reconsume THEN p.t.pos - 1 ELSE p.t.pos
      p1 == [p EXCEPT !.t.reconsume = FALSE, !.t.pos = pos]
      next_special == FindAny(buffer, {"<", "&"}, pos)
      consumed == IF next_special > pos
                  THEN [_append_text_chunk(p1, SubSeq(buffer, pos + 1, next_special))
                          EXCEPT !.t.pos = next_special]
                  ELSE p1
  IN  IF at_end
      THEN ReturnTrue(Call("_emit_token", Call("_flush_text", [p EXCEPT !.t.reconsume = FALSE], <<>>), EOFToken))
      ELSE IF next_special >= length
      THEN ReturnTrue(Call("_emit_token", Call("_flush_text", consumed, <<>>), EOFToken))
      ELSE IF buffer[next_special + 1] = "&"
      THEN Call("_state_rcdata", [Tokenizer_append_text(consumed, <<"&">>) EXCEPT !.t.pos = @ + 1], <<>>)
      ELSE [consumed EXCEPT !.t.pos = @ + 1, !.t.state = "RCDATA_LESS_THAN_SIGN"]

_state_rawtext(p) ==
  LET buffer == p.t.buffer
      length == p.t.length
      at_end == p.t.reconsume /\ p.t.current_char = ""
      pos == IF p.t.reconsume THEN p.t.pos - 1 ELSE p.t.pos
      p1 == [p EXCEPT !.t.reconsume = FALSE, !.t.pos = pos]
      lt_index == Find(buffer, "<", pos)
      consumed == IF lt_index > pos
                  THEN _append_text_chunk(p1, SubSeq(buffer, pos + 1, lt_index)) ELSE p1
      at(i) == IF i < length THEN buffer[i + 1] ELSE ""
      opened == [consumed EXCEPT !.t.pos = lt_index + 1]
  IN  IF at_end
      THEN ReturnTrue(Call("_emit_token", Call("_flush_text", [p EXCEPT !.t.reconsume = FALSE], <<>>), EOFToken))
      ELSE IF lt_index = length
      THEN ReturnTrue(Call("_emit_token", Call("_flush_text", [consumed EXCEPT !.t.pos = length], <<>>), EOFToken))
      ELSE IF /\ p.t.rawtext_tag_name = "script"
              /\ at(lt_index + 1) = "!" /\ at(lt_index + 2) = "-" /\ at(lt_index + 3) = "-"
      THEN [_get_char(_get_char(_get_char(
              Tokenizer_append_text(opened, <<"<", "!", "-", "-">>))))
              EXCEPT !.t.state = "SCRIPT_DATA_ESCAPED"]
      ELSE [opened EXCEPT !.t.state = "RAWTEXT_LESS_THAN_SIGN"]

\* _state_rcdata_less_than_sign and _state_rawtext_less_than_sign, raw being
\* the state to fall back to
LessThanSignIn(p, raw) ==
  LET read(g, c) ==
        IF c = "/" THEN [g EXCEPT !.t.current_tag_name = "", !.t.state = raw \o "_END_TAG_OPEN"]
        ELSE [_reconsume_current(Tokenizer_append_text(g, <<"<">>)) EXCEPT !.t.state = raw]
      got(g) == read(g, g.t.current_char)
  IN  got(_get_char(p))

\* _state_rcdata_end_tag_open and _state_rawtext_end_tag_open
EndTagOpenIn(p, raw) ==
  LET read(g, c) ==
        IF IsAsciiAlpha(c)
        THEN [g EXCEPT !.t.current_tag_name = @ \o AsciiLower(c),
                       !.t.original_tag_name = Append(@, c),
                       !.t.state = raw \o "_END_TAG_NAME"]
        ELSE [_reconsume_current(Tokenizer_append_text(g, <<"<", "/">>)) EXCEPT !.t.state = raw]
      got(g) == read(g, g.t.current_char)
  IN  got(_get_char(p))

RECURSIVE EndTagNameIn(_, _)
\* _state_rcdata_end_tag_name and _state_rawtext_end_tag_name
EndTagNameIn(p, raw) ==
  LET as_text(g) ==
        [Tokenizer_append_text(g, <<"<", "/">> \o g.t.original_tag_name)
           EXCEPT !.t.current_tag_name = "", !.t.original_tag_name = <<>>]
      read(g, c) ==
        LET tag_name == g.t.current_tag_name
            matches == tag_name = g.t.rawtext_tag_name
        IN  IF IsAsciiAlpha(c)
            THEN Call("EndTagNameIn", [g EXCEPT !.t.current_tag_name = @ \o AsciiLower(c),
                                        !.t.original_tag_name = Append(@, c)], raw)
            ELSE IF matches /\ c = ">"
            THEN [Call("_emit_token", Call("_flush_text", g, <<>>), Tag(END, tag_name))
                    EXCEPT !.t.state = "DATA", !.t.rawtext_tag_name = "",
                           !.t.original_tag_name = <<>>]
            ELSE IF matches /\ c \in {" ", "\t", "\n", "\r", "\f"}
            THEN [g EXCEPT !.t.current_tag_kind = END, !.t.current_tag_attrs = <<>>,
                           !.t.state = "BEFORE_ATTRIBUTE_NAME"]
            ELSE IF matches /\ c = "/"
            THEN [Call("_flush_text", g, <<>>) EXCEPT !.t.current_tag_kind = END,
                                        !.t.current_tag_attrs = <<>>,
                                        !.t.state = "SELF_CLOSING_START_TAG"]
            ELSE IF c = "" THEN ReturnTrue(Call("_emit_token", Call("_flush_text", as_text(g), <<>>), EOFToken))
            ELSE [_reconsume_current(as_text(g)) EXCEPT !.t.state = raw]
      got(g) == read(g, g.t.current_char)
  IN  got(_get_char(p))

_state_rcdata_less_than_sign(p) == Call("LessThanSignIn", p, "RCDATA")

_state_rcdata_end_tag_open(p) == Call("EndTagOpenIn", p, "RCDATA")

_state_rcdata_end_tag_name(p) == Call("EndTagNameIn", p, "RCDATA")

_state_rawtext_less_than_sign(p) == Call("LessThanSignIn", p, "RAWTEXT")

_state_rawtext_end_tag_open(p) == Call("EndTagOpenIn", p, "RAWTEXT")

_state_rawtext_end_tag_name(p) == Call("EndTagNameIn", p, "RAWTEXT")

_state_plaintext(p) ==
  LET remaining == SubSeq(p.t.buffer, p.t.pos + 1, p.t.length)
      consumed == IF p.t.pos < p.t.length
                  THEN [Tokenizer_append_text(p, remaining) EXCEPT !.t.pos = p.t.length]
                  ELSE p
  IN  ReturnTrue(Call("_emit_token", Call("_flush_text", consumed, <<>>), EOFToken))

\* the states whose handlers are modelled: the input keeps out of comments,
\* doctypes, CDATA sections and script data
STATE_HANDLERS ==
  {"DATA", "TAG_OPEN", "END_TAG_OPEN", "TAG_NAME", "MARKUP_DECLARATION_OPEN", "BOGUS_COMMENT",
   "BEFORE_ATTRIBUTE_NAME", "ATTRIBUTE_NAME", "AFTER_ATTRIBUTE_NAME",
   "BEFORE_ATTRIBUTE_VALUE", "ATTRIBUTE_VALUE_DOUBLE", "ATTRIBUTE_VALUE_SINGLE",
   "ATTRIBUTE_VALUE_UNQUOTED", "AFTER_ATTRIBUTE_VALUE_QUOTED", "SELF_CLOSING_START_TAG",
   "RCDATA", "RCDATA_LESS_THAN_SIGN", "RCDATA_END_TAG_OPEN", "RCDATA_END_TAG_NAME",
   "RAWTEXT", "RAWTEXT_LESS_THAN_SIGN", "RAWTEXT_END_TAG_OPEN", "RAWTEXT_END_TAG_NAME",
   "PLAINTEXT"}

\* Tokenizer.step: self._STATE_HANDLERS[self.state](self)
step(p) ==
  CASE p.t.state = "DATA" -> Call("_state_data", p, <<>>)
    [] p.t.state = "TAG_OPEN" -> Call("_state_tag_open", p, <<>>)
    [] p.t.state = "END_TAG_OPEN" -> Call("_state_end_tag_open", p, <<>>)
    [] p.t.state = "TAG_NAME" -> Call("_state_tag_name", p, <<>>)
    [] p.t.state = "MARKUP_DECLARATION_OPEN" -> Call("_state_markup_declaration_open", p, <<>>)
    [] p.t.state = "BOGUS_COMMENT" -> Call("_state_bogus_comment", p, <<>>)
    [] p.t.state = "BEFORE_ATTRIBUTE_NAME" -> Call("_state_before_attribute_name", p, <<>>)
    [] p.t.state = "ATTRIBUTE_NAME" -> Call("_state_attribute_name", p, <<>>)
    [] p.t.state = "AFTER_ATTRIBUTE_NAME" -> Call("_state_after_attribute_name", p, <<>>)
    [] p.t.state = "BEFORE_ATTRIBUTE_VALUE" -> Call("_state_before_attribute_value", p, <<>>)
    [] p.t.state = "ATTRIBUTE_VALUE_DOUBLE" -> Call("_state_attribute_value_double", p, <<>>)
    [] p.t.state = "ATTRIBUTE_VALUE_SINGLE" -> Call("_state_attribute_value_single", p, <<>>)
    [] p.t.state = "ATTRIBUTE_VALUE_UNQUOTED" -> Call("_state_attribute_value_unquoted", p, <<>>)
    [] p.t.state = "AFTER_ATTRIBUTE_VALUE_QUOTED" -> Call("_state_after_attribute_value_quoted", p, <<>>)
    [] p.t.state = "SELF_CLOSING_START_TAG" -> Call("_state_self_closing_start_tag", p, <<>>)
    [] p.t.state = "RCDATA" -> Call("_state_rcdata", p, <<>>)
    [] p.t.state = "RCDATA_LESS_THAN_SIGN" -> Call("_state_rcdata_less_than_sign", p, <<>>)
    [] p.t.state = "RCDATA_END_TAG_OPEN" -> Call("_state_rcdata_end_tag_open", p, <<>>)
    [] p.t.state = "RCDATA_END_TAG_NAME" -> Call("_state_rcdata_end_tag_name", p, <<>>)
    [] p.t.state = "RAWTEXT" -> Call("_state_rawtext", p, <<>>)
    [] p.t.state = "RAWTEXT_LESS_THAN_SIGN" -> Call("_state_rawtext_less_than_sign", p, <<>>)
    [] p.t.state = "RAWTEXT_END_TAG_OPEN" -> Call("_state_rawtext_end_tag_open", p, <<>>)
    [] p.t.state = "RAWTEXT_END_TAG_NAME" -> Call("_state_rawtext_end_tag_name", p, <<>>)
    [] p.t.state = "PLAINTEXT" -> Call("_state_plaintext", p, <<>>)

\* self.method(arg): the insertion-mode handlers by the name of their mode
\* (_MODE_HANDLERS), the two entry points of the TokenSink interface and the
\* tokenizer's step
Call(method, self, arg) ==
  CASE method = "INITIAL" -> _mode_initial(self, arg)
    [] method = "BEFORE_HTML" -> _mode_before_html(self, arg)
    [] method = "BEFORE_HEAD" -> _mode_before_head(self, arg)
    [] method = "IN_HEAD" -> _mode_in_head(self, arg)
    [] method = "AFTER_HEAD" -> _mode_after_head(self, arg)
    [] method = "TEXT" -> _mode_text(self, arg)
    [] method = "IN_BODY" -> _mode_in_body(self, arg)
    [] method = "IN_TABLE" -> _mode_in_table(self, arg)
    [] method = "IN_TABLE_TEXT" -> _mode_in_table_text(self, arg)
    [] method = "IN_TABLE_BODY" -> _mode_in_table_body(self, arg)
    [] method = "IN_ROW" -> _mode_in_row(self, arg)
    [] method = "IN_CELL" -> _mode_in_cell(self, arg)
    [] method = "IN_SELECT" -> _mode_in_select(self, arg)
    [] method = "IN_TEMPLATE" -> _mode_in_template(self, arg)
    [] method = "AFTER_BODY" -> _mode_after_body(self, arg)
    [] method = "IN_FRAMESET" -> _mode_in_frameset(self, arg)
    [] method = "AFTER_FRAMESET" -> _mode_after_frameset(self, arg)
    [] method = "process_token" -> process_token(self, arg)
    [] method = "process_characters" -> process_characters(self, arg)
    [] method = "step" -> step(self)
    [] method = "_flush_text" -> _flush_text(self)
    [] method = "_emit_token" -> _emit_token(self, arg)
    [] method = "_finish_attribute" -> _finish_attribute(self)
    [] method = "_emit_current_tag" -> _emit_current_tag(self)
    [] method = "EmitOrData" -> EmitOrData(self)
    [] method = "_emit_comment" -> _emit_comment(self)
    [] method = "_state_self_closing_start_tag" -> _state_self_closing_start_tag(self)
    [] method = "_state_after_attribute_value_quoted" -> _state_after_attribute_value_quoted(self)
    [] method = "AttributeValueQuoted" -> AttributeValueQuoted(self, arg)
    [] method = "_state_attribute_value_double" -> _state_attribute_value_double(self)
    [] method = "_state_attribute_value_single" -> _state_attribute_value_single(self)
    [] method = "_state_attribute_value_unquoted" -> _state_attribute_value_unquoted(self)
    [] method = "_state_before_attribute_value" -> _state_before_attribute_value(self)
    [] method = "_state_attribute_name" -> _state_attribute_name(self)
    [] method = "StartAttribute" -> StartAttribute(self, arg)
    [] method = "_state_after_attribute_name" -> _state_after_attribute_name(self)
    [] method = "_state_before_attribute_name" -> _state_before_attribute_name(self)
    [] method = "_state_tag_name" -> _state_tag_name(self)
    [] method = "_state_tag_open" -> _state_tag_open(self)
    [] method = "_state_end_tag_open" -> _state_end_tag_open(self)
    [] method = "_state_markup_declaration_open" -> _state_markup_declaration_open(self)
    [] method = "_state_bogus_comment" -> _state_bogus_comment(self)
    [] method = "_state_data" -> _state_data(self)
    [] method = "_state_rcdata" -> _state_rcdata(self)
    [] method = "_state_rawtext" -> _state_rawtext(self)
    [] method = "LessThanSignIn" -> LessThanSignIn(self, arg)
    [] method = "EndTagOpenIn" -> EndTagOpenIn(self, arg)
    [] method = "EndTagNameIn" -> EndTagNameIn(self, arg)
    [] method = "_state_rcdata_less_than_sign" -> _state_rcdata_less_than_sign(self)
    [] method = "_state_rcdata_end_tag_open" -> _state_rcdata_end_tag_open(self)
    [] method = "_state_rcdata_end_tag_name" -> _state_rcdata_end_tag_name(self)
    [] method = "_state_rawtext_less_than_sign" -> _state_rawtext_less_than_sign(self)
    [] method = "_state_rawtext_end_tag_open" -> _state_rawtext_end_tag_open(self)
    [] method = "_state_rawtext_end_tag_name" -> _state_rawtext_end_tag_name(self)
    [] method = "_state_plaintext" -> _state_plaintext(self)
    [] method = "finish" -> finish(self)
    [] method = "_insert_element" -> _insert_element(self, arg[1], arg[2])
    [] method = "_insert_element_in" -> _insert_element_in(self, arg[1], arg[2], arg[3])
    [] method = "_process_foreign_content" -> _process_foreign_content(self, arg)
    [] method = "LoopTurn" -> LoopTurn(self, arg[1], arg[2])
    [] method = "_reconstruct_active_formatting_elements" -> _reconstruct_active_formatting_elements(self)
    [] method = "_append_text" -> _append_text(self, arg)
    [] method = "_appropriate_insertion_location" -> _appropriate_insertion_location(self, arg[1], arg[2])
    [] method = "_adoption_agency" -> _adoption_agency(self, arg)
    [] method = "_current_node_or_html" -> _current_node_or_html(self)
    [] method = "_close_table_cell" -> _close_table_cell(self)
    [] method = "_end_table_cell" -> _end_table_cell(self, arg)
    [] method = "_pop_until_any_inclusive" -> _pop_until_any_inclusive(self, arg)
    [] method = "_pop_until_inclusive" -> _pop_until_inclusive(self, arg)
    [] method = "_append_comment" -> _append_comment(self, arg[1], arg[2])
    [] method = "_has_element_in_scope" -> _has_element_in_scope(self, arg[1], arg[2], arg[3])
    [] method = "_parse_error" -> _parse_error(self, arg)
    [] method = "insert_before" -> insert_before(self, arg[1], arg[2], arg[3])
    [] method = "_insert_node_at" -> _insert_node_at(self, arg[1], arg[2], arg[3])
    [] method = "append_child" -> append_child(self, arg[1], arg[2])
    [] method = "_generate_implied_end_tags" -> _generate_implied_end_tags(self, arg)
    [] method = "_reset_insertion_mode" -> _reset_insertion_mode(self)
    [] method = "_close_p_element" -> _close_p_element(self)

(* ---------------------------------------------------------------------- *)
(* State                                                                   *)
(* ---------------------------------------------------------------------- *)

VARIABLES
  tb,        \* the TreeBuilder object
  phase,     \* "parsing", then "finished" (finish() returned) or "raised" (an exception escaped)
  fed,       \* number of tokens the sink has received
  alphabet,  \* what the input of this run is made from: a set of tokens, or the parts of a document
  tokenizer, \* the Tokenizer object (its sink is tb); None when the tree builder is fed directly
  parser     \* the JustHTML object: strict, collect_errors, errors, the exception it raised

vars == <<tb, phase, fed, alphabet, tokenizer, parser>>

\* TreeBuilder.__init__; fragment_context is the context element's tag name, "" for None
TreeBuilder(fragment_context, collect_errors) ==
  LET base == [fragment_context |-> fragment_context, collect_errors |-> collect_errors,
               errors |-> <<>>, recorded |-> 0,
               nodes |-> <<Node(IF fragment_context # "" THEN "#document-fragment" ELSE "#document",
                                "html", <<>>, None)>>,
               document |-> 1, mode |-> "INITIAL", table_text_original_mode |-> "",
               open_elements |-> <<>>, head_element |-> None, form_element |-> None,
               frameset_ok |-> TRUE, quirks_mode |-> "no-quirks", ignore_lf |-> FALSE,
               iframe_srcdoc |-> FALSE,
               active_formatting |-> <<>>, insert_from_table |-> FALSE,
               pending_table_text |-> <<>>, template_modes |-> <<>>,
               original_mode |-> "", tokenizer_state_override |-> "",
               result |-> NoResult, result_to_return |-> "Continue", exc |-> "",
               dispatched |-> <<>>, adopted |-> <<>>]
      rooted == _create_root(base)
      name == fragment_context
  IN  IF fragment_context = "" THEN base
      ELSE [rooted EXCEPT !.frameset_ok = FALSE,
              !.mode = CASE name = "html" -> "BEFORE_HEAD"
                         [] name \in {"tbody", "thead", "tfoot"} -> "IN_TABLE_BODY"
                         [] name = "tr" -> "IN_ROW"
                         [] name \in {"td", "th"} -> "IN_CELL"
                         [] name = "caption" -> "IN_CAPTION"
                         [] name = "colgroup" -> "IN_COLUMN_GROUP"
                         [] name = "table" -> "IN_TABLE"
                         [] OTHER -> "IN_BODY"]

(* ---------------------------------------------------------------------- *)
(* The tree builder fed token by token (the TokenSink interface)           *)
(* ---------------------------------------------------------------------- *)

X == <<"x">>
SP == <<" ">>

\* input alphabets: formatting and blocks, tables and templates, select and
\* frameset, doctype and comments
Alphabets ==
  { {Tag(START, "a"), Tag(START, "b"), Tag(END, "a"), Tag(END, "b"), Tag(START, "p"),
     Tag(END, "p"), Tag(START, "div"), Tag(END, "div"), CharacterTokens(X)},
    {Tag(START, "table"), Tag(END, "table"), Tag(START, "tr"), Tag(START, "td"),
     Tag(START, "template"), Tag(START, "b"), Tag(END, "b"), CharacterTokens(X),
     CharacterTokens(SP)},
    {Tag(START, "select"), Tag(END, "select"), Tag(START, "option"),
     Tag(START, "selectedcontent"), Tag(END, "selectedcontent"), Tag(START, "frameset"),
     Tag(START, "div"), Tag(END, "template"), CharacterTokens(X)},
    {DoctypeToken, CommentToken(X), Tag(START, "p"), Tag(START, "table"), Tag(END, "td"),
     Tag(START, "i"), Tag(END, "i"), CharacterTokens(X)} }

\* fragment contexts tried, "" is a whole document
FragmentContexts == {"", "div", "tr"}

InitTree ==
  /\ \E fragment_context \in FragmentContexts : tb = TreeBuilder(fragment_context, TRUE)
  /\ alphabet \in Alphabets
  /\ phase = "parsing"
  /\ fed = 0
  /\ tokenizer = None
  /\ parser = None

Advance(s) ==
  /\ tb' = s
  /\ phase' = IF s.exc # "" THEN "raised" ELSE phase
  /\ fed' = fed + 1
  /\ UNCHANGED <<alphabet, tokenizer, parser>>

\* the tokenizer emits a tag, comment or doctype token: sink.process_token
TreeProcessToken ==
  /\ phase = "parsing" /\ fed < MaxTokens
  /\ \E token \in alphabet :
       /\ token.type # "CharacterTokens"
       /\ Advance(Call("process_token", tb, token))

\* the tokenizer flushes text: sink.process_characters
TreeProcessCharacters ==
  /\ phase = "parsing" /\ fed < MaxTokens
  /\ \E token \in alphabet :
       /\ token.type = "CharacterTokens"
       /\ Advance(Call("process_characters", tb, token.data))

\* end of input: the tokenizer emits EOF, then the parser calls finish()
TreeFinish ==
  /\ phase = "parsing"
  /\ LET returned(s2) == /\ tb' = s2
                         /\ phase' = IF s2.exc # "" THEN "raised" ELSE "finished"
         ended(s1) == returned(IF s1.exc # "" THEN s1 ELSE Call("finish", s1, <<>>))
     IN  ended(Call("process_token", tb, EOFToken))
  /\ UNCHANGED <<fed, alphabet, tokenizer, parser>>

NextTree == TreeProcessToken \/ TreeProcessCharacters \/ TreeFinish

SpecTree == InitTree /\ [][NextTree]_vars

(* ---------------------------------------------------------------------- *)
(* The tree builder fed doctype tokens, with and without iframe_srcdoc     *)
(* ---------------------------------------------------------------------- *)

\* the doctypes fed: by name (html, another one, none), public identifier
\* (none, acceptable, HTML 4.01 transitional, XHTML 1.0 transitional), system
\* identifier and force-quirks flag
Doctypes ==
  {Doctype(name, public_id, system_id, force_quirks) :
     name \in {"html", "svg", ""},
     public_id \in {<<>>, <<"-//W3C//DTD HTML 4.01//EN">>,
                    <<"-//W3C//DTD HTML 4.01 Transitional//EN">>,
                    <<"-//W3C//DTD XHTML 1.0 Transitional//EN">>},
     system_id \in {<<>>, <<"about:legacy-compat">>},
     force_quirks \in BOOLEAN}

DoctypeAlphabet ==
  {DoctypeTokenOf(doctype) : doctype \in Doctypes} \cup {CharacterTokens(SP), Tag(START, "p")}

\* TreeBuilder(iframe_srcdoc=flag) for a whole document
InitDoctype ==
  /\ \E flag \in BOOLEAN : tb = [TreeBuilder("", TRUE) EXCEPT !.iframe_srcdoc = flag]
  /\ alphabet = DoctypeAlphabet
  /\ phase = "parsing"
  /\ fed = 0
  /\ tokenizer = None
  /\ parser = None

SpecDoctype == InitDoctype /\ [][NextTree]_vars

(* ---------------------------------------------------------------------- *)
(* parser.py: JustHTML(html, ...) run step by step                         *)
(* ---------------------------------------------------------------------- *)

StartTag(name) == <<"<">> \o name \o <<">">>
EndTag(name) == <<"<", "/">> \o name \o <<">">>

\* <a><div><a>x</a></div>
DocNestedA ==
  StartTag(<<"a">>) \o StartTag(<<"d", "i", "v">>) \o StartTag(<<"a">>) \o <<"x">>
    \o EndTag(<<"a">>) \o EndTag(<<"d", "i", "v">>)

\* <p>a<b>b<i>c</p>d</i>e</b>
DocMisnested ==
  StartTag(<<"p">>) \o <<"a">> \o StartTag(<<"b">>) \o <<"b">> \o StartTag(<<"i">>) \o <<"c">>
    \o EndTag(<<"p">>) \o <<"d">> \o EndTag(<<"i">>) \o <<"e">> \o EndTag(<<"b">>)

\* <table>A<td>B</td></table>
DocTableText ==
  StartTag(<<"t", "a", "b", "l", "e">>) \o <<"A">> \o StartTag(<<"t", "d">>) \o <<"B">>
    \o EndTag(<<"t", "d">>) \o EndTag(<<"t", "a", "b", "l", "e">>)

\* <p></>
DocEmptyEndTag == StartTag(<<"p">>) \o <<"<", "/", ">">>

\* the pieces the other documents are put together from
Pieces ==
  {StartTag(<<"t", "a", "b", "l", "e">>), EndTag(<<"t", "a", "b", "l", "e">>),
   StartTag(<<"t", "r">>), StartTag(<<"t", "d">>),
   StartTag(<<"t", "e", "m", "p", "l", "a", "t", "e">>),
   StartTag(<<"b">>), StartTag(<<"p">>), EndTag(<<"p">>),
   <<"x">>, <<"<", "/", ">">>, <<"<", "/", "/", ">">>}

\* how a document may end: complete, or inside a tag
Tails == {<<>>, <<"<">>, <<"<", "/">>, <<"<", "b">>}

RECURSIVE Concats(_)
\* the concatenations of at most n pieces
Concats(n) ==
  IF n = 0 THEN {<<>>}
  ELSE LET shorter == Concats(n - 1)
       IN  shorter \cup {d \o piece : d \in shorter, piece \in Pieces}

Documents ==
  {DocNestedA, DocMisnested, DocTableText, DocEmptyEndTag}
    \cup {d \o tail : d \in Concats(MaxPieces), tail \in Tails}

ParseContexts == {"", "div"}

NoError == [code |-> "", order |-> 0]

\* JustHTML.__init__ up to the call of tokenizer.run
JustHTML(html, collect_errors, fragment_context, strict) ==
  LET should_collect == collect_errors \/ strict
  IN  [parser |-> [strict |-> strict, collect_errors |-> collect_errors, errors |-> <<>>,
                   exc |-> "", raised |-> NoError],
       tree_builder |-> TreeBuilder(fragment_context, should_collect),
       tokenizer |-> Tokenizer(html, should_collect)]

InitParse ==
  /\ \E html \in Documents, fragment_context \in ParseContexts,
        strict \in BOOLEAN, collect_errors \in BOOLEAN :
       LET constructed(j) == parser = j.parser /\ tb = j.tree_builder /\ tokenizer = j.tokenizer
       IN  constructed(JustHTML(html, collect_errors, fragment_context, strict))
  /\ phase = "parsing"
  /\ fed = 0
  /\ alphabet = {}

\* one iteration of the loop of Tokenizer.run: step(), with the calls into the sink
TokenizerStep ==
  /\ phase = "parsing" /\ ~tokenizer.eof
  /\ tokenizer.state \in STATE_HANDLERS
  /\ LET stepped(p) == /\ tokenizer' = p.t
                       /\ tb' = p.sink
                       /\ phase' = IF p.sink.exc # "" THEN "raised" ELSE phase
                       /\ parser' = [parser EXCEPT !.exc = p.sink.exc]
     IN  stepped(Call("step", [t |-> tokenizer, sink |-> tb], None))
  /\ UNCHANGED <<fed, alphabet>>

\* after run() returned: tree_builder.finish(), the merge of the two error
\* lists and the strict-mode raise
ParserFinish ==
  /\ phase = "parsing" /\ tokenizer.eof
  /\ LET merged(s, errors) ==
           /\ tb' = s
           /\ IF s.exc # ""
              THEN phase' = "raised" /\ parser' = [parser EXCEPT !.exc = s.exc]
              ELSE IF parser.strict /\ errors # <<>>
              THEN /\ phase' = "raised"
                   /\ parser' = [parser EXCEPT !.errors = errors, !.exc = "StrictModeError",
                                               !.raised = errors[1]]
              ELSE phase' = "finished" /\ parser' = [parser EXCEPT !.errors = errors]
         finished(s) == merged(s, tokenizer.errors \o s.errors)
     IN  finished(Call("finish", tb, <<>>))
  /\ UNCHANGED <<fed, alphabet, tokenizer>>

NextParse == TokenizerStep \/ ParserFinish

SpecParse == InitParse /\ [][NextParse]_vars

(* ---------------------------------------------------------------------- *)
(* Shape of the output tree                                                *)
(* ---------------------------------------------------------------------- *)

\* the nodes one step below the nodes of set: children and template contents
Below(s, set) ==
  UNION {{s.nodes[n].children[i] : i \in 1..Len(s.nodes[n].children)} : n \in set}
    \cup {s.nodes[n].template_content : n \in {m \in set : IsTemplateNode(s, m)}}

RECURSIVE Closure(_, _)
Closure(s, set) ==
  LET more == set \cup Below(s, set) IN IF more = set THEN set ELSE Closure(s, more)

\* the tree finish() returns: the document and everything below it
OutputTree(s) == Closure(s, {s.document})

\* the document and the content fragments of templates have no parent by construction
IsRoot(s, n) == n = s.document \/ \E t \in OutputTree(s) : s.nodes[t].template_content = n

Occurrences(seq, x) == Cardinality({i \in 1..Len(seq) : seq[i] = x})

\* n is listed once by its parent, which is part of the tree, and by no other node
SingleParent(s, n) ==
  LET p == s.nodes[n].parent
  IN  /\ p # None
      /\ p \in OutputTree(s)
      /\ Occurrences(s.nodes[p].children, n) = 1
      /\ \A q \in 1..Len(s.nodes) : q # p => Occurrences(s.nodes[q].children, n) = 0

HasAdjacentText(s, n) ==
  \E i \in 1..(Len(s.nodes[n].children) - 1) :
     /\ NameOf(s, s.nodes[n].children[i]) = "#text"
     /\ NameOf(s, s.nodes[n].children[i + 1]) = "#text"

Recorded(s, code) == \E i \in 1..Len(s.errors) : s.errors[i].code = code

(* ---------------------------------------------------------------------- *)
(* Properties of the tree builder (SpecTree)                               *)
(* ---------------------------------------------------------------------- *)

\* C1: in the tree finish() returns, every node other than a root appears
\* exactly once in the child list of its parent and in no other child list.
C1_SingleParent ==
  phase = "finished" => \A n \in OutputTree(tb) : IsRoot(tb, n) \/ SingleParent(tb, n)

\* C1 is exercised: a finished parse in which the adoption agency moved the
\* children of the furthest block into the new formatting element (a node is
\* older than its parent only when it was moved there).
C1_Witness ==
  /\ phase = "finished"
  /\ \E n \in OutputTree(tb) :
        /\ ~IsRoot(tb, n)
        /\ tb.nodes[n].parent > n
        /\ NameOf(tb, tb.nodes[n].parent) \in FORMATTING_ELEMENTS

\* C2: in the tree finish() returns, no node has two text nodes next to each
\* other among its children.
C2_NoAdjacentText ==
  phase = "finished" => \A n \in OutputTree(tb) : ~HasAdjacentText(tb, n)

\* C3: no exception escapes the tree builder, whatever the tokens.
C3_NeverRaises == phase # "raised"

\* the doctype a "!doctype" child of the document was made from
DoctypeSeen(s) == {s.nodes[n].data : n \in {c \in 1..Len(s.nodes) : s.nodes[c].name = "!doctype"}}

\* C11: once a doctype token with the force-quirks flag, or with a name other
\* than html, was handled, the document is in quirks mode when iframe_srcdoc
\* is not set, and is not in quirks mode when iframe_srcdoc is set
C11_QuirksUnlessSrcdoc ==
  \A doctype \in DoctypeSeen(tb) :
    doctype.force_quirks \/ doctype.name # "html" =>
      IF tb.iframe_srcdoc THEN tb.quirks_mode # "quirks" ELSE tb.quirks_mode = "quirks"

(* ---------------------------------------------------------------------- *)
(* Attributes of a start tag (SpecAttributes): the document is one start   *)
(* tag written from a list of attributes, kept in alphabet                 *)
(* ---------------------------------------------------------------------- *)

MaxAttrs == 3

\* an attribute as written: name, name=value, or name =value
WrittenAttrs ==
  {[name |-> n, sep |-> "", value |-> ""] : n \in {"a", "A", "b"}}
    \cup [name : {"a", "A", "b"}, sep : {"=", " ="}, value : {"1", "2"}]

RenderAttr(a) ==
  <<" ", a.name>> \o (CASE a.sep = "" -> <<>>
                        [] a.sep = "=" -> <<"=", a.value>>
                        [] a.sep = " =" -> <<" ", "=", a.value>>)

RECURSIVE RenderAttrs(_)
RenderAttrs(attrs) ==
  IF attrs = <<>> THEN <<>> ELSE RenderAttr(Head(attrs)) \o RenderAttrs(Tail(attrs))

\* <p name=value ...>
RenderTag(attrs) == <<"<", "p">> \o RenderAttrs(attrs) \o <<">">>

AttrLists == UNION {[1..n -> WrittenAttrs] : n \in 1..MaxAttrs}

InitAttributes ==
  /\ alphabet \in AttrLists
  /\ \E fragment_context \in ParseContexts :
       LET constructed(j) == parser = j.parser /\ tb = j.tree_builder /\ tokenizer = j.tokenizer
       IN  constructed(JustHTML(RenderTag(alphabet), TRUE, fragment_context, FALSE))
  /\ phase = "parsing"
  /\ fed = 0

SpecAttributes == InitAttributes /\ [][NextParse]_vars

\* the written attributes whose lower-cased name was written before in the tag
LaterOccurrences(attrs) ==
  {i \in 1..Len(attrs) :
     \E j \in 1..(i - 1) : AsciiLower(attrs[j].name) = AsciiLower(attrs[i].name)}

\* the value written at the first occurrence of the lower-cased name
FirstValue(attrs, name) ==
  LET first == CHOOSE i \in 1..Len(attrs) :
                 /\ AsciiLower(attrs[i].name) = name
                 /\ \A j \in 1..(i - 1) : AsciiLower(attrs[j].name) # name
  IN  IF attrs[first].sep = "" THEN <<>> ELSE <<attrs[first].value>>

ErrorCount(errors, code) == Cardinality({i \in 1..Len(errors) : errors[i].code = code})

\* C12: once the start tag is emitted, the tokenizer has recorded one
\* duplicate-attribute error for each attribute whose lower-cased name was
\* written earlier in the tag, and every attribute of the emitted tag whose
\* name was written more than once has the value written at the first
\* occurrence of that name.
C12_DuplicateKeepsFirst ==
  tokenizer._tag_token.name = "p" =>
    /\ ErrorCount(tokenizer.errors, "duplicate-attribute") = Cardinality(LaterOccurrences(alphabet))
    /\ \A k \in 1..Len(tokenizer._tag_token.attrs) :
          (\E i \in LaterOccurrences(alphabet) :
              AsciiLower(alphabet[i].name) = tokenizer._tag_token.attrs[k].name)
            => tokenizer._tag_token.attrs[k].value
                 = FirstValue(alphabet, tokenizer._tag_token.attrs[k].name)

(* ---------------------------------------------------------------------- *)
(* Named references without semicolon (SpecEntities): the document is      *)
(* <p a="&name..."> or <p>&name..., written from the description kept in   *)
(* alphabet                                                                *)
(* ---------------------------------------------------------------------- *)

\* the legacy names written, and what is written right after the name
WrittenNames == {<<"n", "o", "t">>, <<"a", "m", "p">>, <<"l", "t">>, <<"g", "t">>}

WrittenFollows ==
  {<<>>, <<";">>, <<" ">>, <<"=">>, <<"x">>, <<"1">>, <<"i", "t">>, <<"=", "x">>,
   <<"x", ";">>, <<"i", "t", ";">>}

\* where the reference is written: in an attribute value (double-quoted,
\* single-quoted, unquoted) or in text
WrittenPlaces == {"double", "single", "unquoted", "text"}

WrittenReferences == [place : WrittenPlaces, name : WrittenNames, follow : WrittenFollows]

RenderReference(r) ==
  LET reference == <<"&">> \o r.name \o r.follow
  IN  CASE r.place = "double" -> <<"<", "p", " ", "a", "=", "\"">> \o reference \o <<"\"", ">">>
        [] r.place = "single" -> <<"<", "p", " ", "a", "=", "'">> \o reference \o <<"'", ">">>
        [] r.place = "unquoted" -> <<"<", "p", " ", "a", "=">> \o reference \o <<">">>
        [] r.place = "text" -> <<"<", "p", ">">> \o reference

InitEntities ==
  /\ alphabet \in WrittenReferences
  /\ \E fragment_context \in ParseContexts, collect_errors \in BOOLEAN :
       LET constructed(j) == parser = j.parser /\ tb = j.tree_builder /\ tokenizer = j.tokenizer
       IN  constructed(JustHTML(RenderReference(alphabet), collect_errors, fragment_context, FALSE))
  /\ phase = "parsing"
  /\ fed = 0

SpecEntities == InitEntities /\ [][NextParse]_vars

\* the data of the text nodes of the arena
TextData(s) == {s.nodes[n].data : n \in {m \in 1..Len(s.nodes) : s.nodes[m].name = "#text"}}

\* the reference is followed by an alphanumeric character or by "="
FollowedByAlnumOrEquals(r) == r.follow # <<>> /\ (IsAlnum(r.follow[1]) \/ r.follow[1] = "=")

\* C13: a legacy name written without semicolon and followed by an
\* alphanumeric character or "=" stays as written in an attribute value of
\* the emitted tag; written in text, the name (the longest legacy prefix of
\* the run of letters) is replaced by its character and the rest is kept.
C13_LegacyReference ==
  FollowedByAlnumOrEquals(alphabet) =>
    /\ alphabet.place # "text" /\ tokenizer._tag_token.name = "p" =>
         /\ Len(tokenizer._tag_token.attrs) = 1
         /\ tokenizer._tag_token.attrs[1].value = <<"&">> \o alphabet.name \o alphabet.follow
    /\ alphabet.place = "text" /\ phase = "finished" =>
         TextData(tb) = {<<NAMED_ENTITIES[JoinChars(alphabet.name)]>> \o alphabet.follow}

\* C13 is exercised: the tag of <p a="&notit"> was emitted with the value
\* of a starting with "&"
C13_Witness ==
  /\ alphabet.place = "double" /\ alphabet.name = <<"n", "o", "t">>
  /\ alphabet.follow = <<"i", "t">>
  /\ tokenizer._tag_token.name = "p"
  /\ tokenizer._tag_token.attrs # <<>>
  /\ tokenizer._tag_token.attrs[1].value[1] = "&"

(* ---------------------------------------------------------------------- *)
(* Raw text elements (SpecRawText): the document is a start tag of one of  *)
(* the elements below followed by a few pieces; alphabet keeps the name of *)
(* the element                                                             *)
(* ---------------------------------------------------------------------- *)

MaxRest == 3

\* the elements whose start tag opens the document
OpeningElements ==
  {<<"t", "i", "t", "l", "e">>, <<"t", "e", "x", "t", "a", "r", "e", "a">>,
   <<"s", "t", "y", "l", "e">>, <<"s", "c", "r", "i", "p", "t">>, <<"x", "m", "p">>,
   <<"i", "f", "r", "a", "m", "e">>, <<"n", "o", "e", "m", "b", "e", "d">>,
   <<"n", "o", "f", "r", "a", "m", "e", "s">>,
   <<"p", "l", "a", "i", "n", "t", "e", "x", "t">>, <<"p">>}

\* how the start tag ends: >, />, with a space, with an attribute whose
\* value holds a carriage return
TagEndings ==
  {<<">">>, <<"/", ">">>, <<" ", ">">>, <<" ", "a", "=", "\"", "\r", "\"", ">">>}

\* what follows the start tag of element name is put together from these
RestPieces(name) ==
  {<<"a">>, <<"\r">>, <<"\n">>, StartTag(<<"b">>), EndTag(name),
   <<"<", "/">> \o name \o <<" ", ">">>, <<"<", "/", "/", "\r", ">">>}

RECURSIVE Rests(_, _)
Rests(name, n) ==
  IF n = 0 THEN {<<>>}
  ELSE LET shorter == Rests(name, n - 1)
       IN  shorter \cup {d \o piece : d \in shorter, piece \in RestPieces(name)}

InitRawText ==
  /\ alphabet \in OpeningElements
  /\ \E ending \in TagEndings, rest \in Rests(alphabet, MaxRest),
        fragment_context \in ParseContexts :
       LET html == <<"<">> \o alphabet \o ending \o rest
           constructed(j) == parser = j.parser /\ tb = j.tree_builder /\ tokenizer = j.tokenizer
       IN  constructed(JustHTML(html, TRUE, fragment_context, FALSE))
  /\ phase = "parsing"
  /\ fed = 0

SpecRawText == InitRawText /\ [][NextParse]_vars

\* the step emitted a tag: the tag token of the tokenizer is not the one of before
TagEmitted == tokenizer'._tag_token # tokenizer._tag_token

\* C14: the step that emits the start tag of script, style, xmp, iframe,
\* noembed or noframes leaves the tokenizer in RAWTEXT, the one that emits
\* the start tag of title or textarea leaves it in RCDATA, both with the
\* tag name as rawtext_tag_name, however the tag was ended (the current
\* node is in the HTML namespace in every run).
C14_RawStateAfterStartTag ==
  [][ (/\ TagEmitted
       /\ tokenizer'._tag_token.kind = START
       /\ tokenizer'._tag_token.name \in _RAWTEXT_SWITCH_TAGS)
      => /\ tokenizer'.state = IF tokenizer'._tag_token.name \in _RCDATA_ELEMENTS
                               THEN "RCDATA" ELSE "RAWTEXT"
         /\ tokenizer'.rawtext_tag_name = tokenizer'._tag_token.name ]_vars

\* the comment and doctype nodes made so far
MarkupNodes(s) == {n \in 1..Len(s.nodes) : s.nodes[n].name \in {"#comment", "!doctype"}}

\* C15: once the start tag of plaintext was emitted (the current node is in
\* the HTML namespace in every run, and the sink replies Plaintext to it),
\* every later step leaves the tokenizer in PLAINTEXT and emits no tag, no
\* comment and no doctype.
C15_PlaintextPermanent ==
  [][ (tokenizer._tag_token.kind = START /\ tokenizer._tag_token.name = "plaintext")
      => /\ tokenizer'.state = "PLAINTEXT"
         /\ ~TagEmitted
         /\ MarkupNodes(tb') = MarkupNodes(tb) ]_vars

RAW_CONTENT_STATES ==
  {"RCDATA", "RCDATA_LESS_THAN_SIGN", "RCDATA_END_TAG_OPEN", "RCDATA_END_TAG_NAME",
   "RAWTEXT", "RAWTEXT_LESS_THAN_SIGN", "RAWTEXT_END_TAG_OPEN", "RAWTEXT_END_TAG_NAME",
   "PLAINTEXT"}

\* the tokenizer reads the content of element name as raw text, or is inside
\* the end tag that closes it
InRawContent(t, name) ==
  \/ t.state \in RAW_CONTENT_STATES /\ t.rawtext_tag_name = name
  \/ t.state \notin RAW_CONTENT_STATES \cup {"DATA"}
       /\ t.current_tag_kind = END /\ t.current_tag_name = name

\* C16: while the insertion mode is TEXT the tokenizer is in a raw text
\* state whose rawtext_tag_name is the name of the current node (or inside
\* the end tag of that name), and the only tag emitted in TEXT mode is the
\* end tag of the current node.
C16_TextModeRawTokenizer ==
  /\ [](phase = "parsing" /\ tb.mode = "TEXT"
          => InRawContent(tokenizer, NameOf(tb, Last(tb.open_elements))))
  /\ [][ (tb.mode = "TEXT" /\ TagEmitted)
         => /\ tokenizer'._tag_token.kind = END
            /\ tokenizer'._tag_token.name = NameOf(tb, Last(tb.open_elements)) ]_vars

HasCR(chars) == \E i \in 1..Len(chars) : chars[i] = "\r"

\* C19: no text node and no comment node of the tree holds a carriage
\* return, and neither does an attribute value of an emitted tag.
C19_NoCarriageReturn ==
  /\ \A n \in 1..Len(tb.nodes) :
        tb.nodes[n].name \in {"#text", "#comment"} => ~HasCR(tb.nodes[n].data)
  /\ \A k \in 1..Len(tokenizer._tag_token.attrs) : ~HasCR(tokenizer._tag_token.attrs[k].value)

(* ---------------------------------------------------------------------- *)
(* End tag candidates in raw text (SpecEndTag): the document is            *)
(* <name>x</candidate next ".", after an earlier element of the same name  *)
(* or without one; alphabet keeps how it was written                       *)
(* ---------------------------------------------------------------------- *)

RawElements ==
  {<<"t", "i", "t", "l", "e">>, <<"t", "e", "x", "t", "a", "r", "e", "a">>,
   <<"s", "t", "y", "l", "e">>, <<"s", "c", "r", "i", "p", "t">>}

\* the letters written after "</": the name, the name in mixed case, the
\* name without its last letter, the name with one more letter, another name
Candidates(name) ==
  {name, <<ASCII_UPPER[CHOOSE i \in 1..26 : ASCII_LOWER[i] = name[1]]>> \o Tail(name),
   Front(name), Append(name, "x"), <<"B">>}

\* the character after the letters ("" for none)
CandidateNexts == {<<>>, <<">">>, <<" ">>, <<"/">>, <<"-">>, <<"\t">>}

\* how the end tag of the earlier element is ended ("none": no earlier element)
EarlierEndings == {"none", ">", " >", "/>"}

WrittenCandidates ==
  UNION {[name : {name}, earlier : EarlierEndings, candidate : Candidates(name),
          next : CandidateNexts] : name \in RawElements}

RenderEarlier(w) ==
  IF w.earlier = "none" THEN <<>>
  ELSE StartTag(w.name) \o <<"a", "<", "/">> \o w.name
         \o (CASE w.earlier = ">" -> <<">">>
               [] w.earlier = " >" -> <<" ", ">">>
               [] w.earlier = "/>" -> <<"/", ">">>)

\* what is written after the start tag of the element
WrittenContent(w) == <<"x", "<", "/">> \o w.candidate \o w.next \o <<".">>

RenderCandidate(w) == RenderEarlier(w) \o StartTag(w.name) \o WrittenContent(w)

InitEndTag ==
  /\ alphabet \in WrittenCandidates
  /\ \E fragment_context \in ParseContexts, collect_errors \in BOOLEAN :
       LET constructed(j) == parser = j.parser /\ tb = j.tree_builder /\ tokenizer = j.tokenizer
       IN  constructed(JustHTML(RenderCandidate(alphabet), collect_errors, fragment_context, FALSE))
  /\ phase = "parsing"
  /\ fed = 0

SpecEndTag == InitEndTag /\ [][NextParse]_vars

\* the candidate is the sentinel in lower case and is followed by
\* whitespace, "/" or ">"
ClosesElement(w) ==
  /\ LowerJoin(w.candidate) = JoinChars(w.name)
  /\ w.next \in {<<">">>, <<" ">>, <<"/">>, <<"\t">>}

\* C17: when the letters after "</" are not the sentinel in lower case, or
\* are not followed by whitespace, "/" or ">", the finished tree has a text
\* node with the content exactly as written (original case), and the
\* tokenizer has ended in the raw text state of the element.
C17_EndTagOnlyForSentinel ==
  ~ClosesElement(alphabet) /\ phase = "finished" =>
    /\ WrittenContent(alphabet) \in TextData(tb)
    /\ tokenizer.state = IF JoinChars(alphabet.name) \in _RCDATA_ELEMENTS
                         THEN "RCDATA" ELSE "RAWTEXT"

(* ---------------------------------------------------------------------- *)
(* Text around an element (SpecFlush): the document is                     *)
(* <name>content</name ending after; alphabet keeps how it was written     *)
(* ---------------------------------------------------------------------- *)

FlushElements ==
  {<<"t", "i", "t", "l", "e">>, <<"t", "e", "x", "t", "a", "r", "e", "a">>,
   <<"s", "t", "y", "l", "e">>, <<"s", "c", "r", "i", "p", "t">>, <<"x", "m", "p">>,
   <<"p", "l", "a", "i", "n", "t", "e", "x", "t">>, <<"p">>}

\* text as written, and what it is once its references are decoded
WrittenTexts ==
  {[written |-> <<>>, decoded |-> <<>>],
   [written |-> <<"a">>, decoded |-> <<"a">>],
   [written |-> <<"a", "&", "a", "m", "p", ";", "b">>, decoded |-> <<"a", "&", "b">>],
   [written |-> <<"&", "l", "t", ";">>, decoded |-> <<"<">>]}

EndTagEndings == {<<">">>, <<" ", ">">>, <<"/", ">">>}

WrittenElements ==
  [name : FlushElements, content : WrittenTexts, ending : EndTagEndings, after : WrittenTexts]

RenderElement(w) ==
  StartTag(w.name) \o w.content.written \o <<"<", "/">> \o w.name \o w.ending
    \o w.after.written

InitFlush ==
  /\ alphabet \in WrittenElements
  /\ \E fragment_context \in ParseContexts, collect_errors \in BOOLEAN :
       LET constructed(j) == parser = j.parser /\ tb = j.tree_builder /\ tokenizer = j.tokenizer
       IN  constructed(JustHTML(RenderElement(alphabet), collect_errors, fragment_context, FALSE))
  /\ phase = "parsing"
  /\ fed = 0

SpecFlush == InitFlush /\ [][NextParse]_vars

RECURSIVE TextFrom(_, _)
\* the data of the text nodes n, n + 1, ... of the arena, one after the other
TextFrom(s, n) ==
  IF n > Len(s.nodes) THEN <<>>
  ELSE (IF s.nodes[n].name = "#text" THEN s.nodes[n].data ELSE <<>>) \o TextFrom(s, n + 1)

\* the character data the document stands for: everything after the start
\* tag as written for plaintext, the content as written for the RAWTEXT
\* elements and decoded for the others, then the text after the end tag decoded
ExpectedText(w) ==
  LET name == JoinChars(w.name)
  IN  IF name = "plaintext"
      THEN w.content.written \o <<"<", "/">> \o w.name \o w.ending \o w.after.written
      ELSE IF name \in _RAWTEXT_SWITCH_TAGS \ _RCDATA_ELEMENTS
      THEN w.content.written \o w.after.decoded
      ELSE w.content.decoded \o w.after.decoded

\* C18: the character data of the finished tree is the text consumed under
\* DATA and RCDATA with its references decoded and the text consumed under
\* RAWTEXT and PLAINTEXT as written.
C18_DecodedByContentModel ==
  phase = "finished" => TextFrom(tb, 1) = ExpectedText(alphabet)

(* ---------------------------------------------------------------------- *)
(* The tree builder fed svg and math content in a fragment                 *)
(* ---------------------------------------------------------------------- *)

\* tag names with a foreign element, one of its integration points, a table
\* cell, a paragraph and a select
ForeignAlphabets ==
  { {Tag(START, "svg"), Tag(START, "td"), Tag(START, "desc"), Tag(START, "p"),
     Tag(START, "select"), Tag(END, "td"), CharacterTokens(X)},
    {Tag(START, "math"), Tag(START, "td"), Tag(START, "mi"), Tag(END, "p"),
     Tag(END, "math"), CommentToken(X), CharacterTokens(X)} }

ForeignContexts == {"", "div", "td"}

InitForeign ==
  /\ \E fragment_context \in ForeignContexts : tb = TreeBuilder(fragment_context, TRUE)
  /\ alphabet \in ForeignAlphabets
  /\ phase = "parsing"
  /\ fed = 0
  /\ tokenizer = None
  /\ parser = None

SpecForeign == InitForeign /\ [][NextTree]_vars

\* the html elements that are children of the document
HtmlRoots(s) ==
  {s.nodes[s.document].children[i] : i \in
     {k \in 1..Len(s.nodes[s.document].children) :
        NameOf(s, s.nodes[s.document].children[k]) = "html"}}

\* C20: from the creation of the root html element until parsing finishes,
\* the stack of open elements is not empty and its bottom entry is that
\* html element
C20_HtmlRootStaysOnStack ==
  (phase = "parsing" /\ HtmlRoots(tb) # {}) =>
    /\ tb.open_elements # <<>>
    /\ tb.open_elements[1] \in HtmlRoots(tb)

(* ---------------------------------------------------------------------- *)
(* The tree builder fed templates with formatting, tables and foreign      *)
(* elements                                                                *)
(* ---------------------------------------------------------------------- *)

TemplateAlphabets ==
  { {Tag(START, "template"), Tag(END, "template"), Tag(START, "b"), Tag(END, "b"),
     Tag(START, "p"), Tag(START, "table"), CharacterTokens(X)},
    {Tag(START, "template"), Tag(END, "template"), Tag(START, "td"), Tag(START, "tr"),
     Tag(START, "svg"), CommentToken(X), CharacterTokens(X)},
    {Tag(START, "template"), Tag(END, "template"), Tag(START, "svg"), Tag(START, "desc"),
     Tag(START, "p"), CharacterTokens(X)} }

TemplateContexts == {"", "div"}

InitTemplate ==
  /\ \E fragment_context \in TemplateContexts : tb = TreeBuilder(fragment_context, TRUE)
  /\ alphabet \in TemplateAlphabets
  /\ phase = "parsing"
  /\ fed = 0
  /\ tokenizer = None
  /\ parser = None

SpecTemplate == InitTemplate /\ [][NextTree]_vars

\* the nodes a token created
NewNodes == (Len(tb.nodes) + 1)..Len(tb'.nodes)

\* the current node is an html template element
OnTemplate(s) == s.open_elements # <<>> /\ IsTemplateNode(s, Last(s.open_elements))

\* C21: an html template element never has children of its own, and a token
\* that creates nodes while the current node is an html template puts one
\* of them in the content fragment of that template
C21_TemplateContentReceives ==
  /\ [](\A n \in 1..Len(tb.nodes) : IsTemplateNode(tb, n) => tb.nodes[n].children = <<>>)
  /\ [][(phase = "parsing" /\ phase' = "parsing" /\ OnTemplate(tb) /\ NewNodes # {}) =>
          \E n \in NewNodes :
             tb'.nodes[n].parent = tb.nodes[Last(tb.open_elements)].template_content]_vars

\* C21 is exercised: a template that is not the current node any more holds
\* a table and a foster-parented text in its content fragment
C21_Witness ==
  \E n \in 1..Len(tb.nodes) :
    /\ IsTemplateNode(tb, n)
    /\ \E i, j \in 1..Len(tb.nodes[tb.nodes[n].template_content].children) :
         /\ i < j
         /\ NameOf(tb, tb.nodes[tb.nodes[n].template_content].children[i]) = "#text"
         /\ NameOf(tb, tb.nodes[tb.nodes[n].template_content].children[j]) = "table"

\* the turns of the loop of process_token after the first one
LaterTurns(s) == 2..Len(s.dispatched)

TABLE_MODES == {"IN_TABLE", "IN_TABLE_BODY", "IN_ROW", "IN_CELL", "IN_CAPTION", "IN_COLUMN_GROUP"}

MaxTurns == 12

LoopAlphabets ==
  { {Tag(START, "template"), Tag(END, "template"), Tag(START, "svg"), Tag(START, "td"),
     Tag(START, "p"), Tag(END, "p"), CharacterTokens(X)},
    {Tag(START, "table"), Tag(START, "tr"), Tag(START, "desc"), Tag(START, "svg"),
     Tag(START, "select"), Tag(END, "td"), CommentToken(X)} }

LoopContexts == {"", "td"}

\* phase is "reprocessing" while tb.result holds a request that the loop has
\* not served yet
InitLoop ==
  /\ \E fragment_context \in LoopContexts : tb = TreeBuilder(fragment_context, TRUE)
  /\ alphabet \in LoopAlphabets
  /\ phase = "parsing"
  /\ fed = 0
  /\ tokenizer = None
  /\ parser = None

\* the state after a turn that handled token: the loop goes on, or
\* process_token returns (the parser calls finish() after the EOF token)
AfterTurn(r, token) ==
  /\ tb' = IF r.exc # "" \/ r.result # NoResult THEN r
           ELSE IF token.type = "EOFToken" THEN Call("finish", LoopReturn(r), <<>>)
           ELSE LoopReturn(r)
  /\ phase' = IF r.exc # "" THEN "raised"
              ELSE IF r.result # NoResult THEN "reprocessing"
              ELSE IF token.type = "EOFToken" THEN "finished"
              ELSE "parsing"
  /\ UNCHANGED <<alphabet, tokenizer, parser>>

\* process_token is called with a tag or a comment, or by process_characters:
\* the first turn of the loop
LoopCall ==
  /\ phase = "parsing" /\ fed < MaxTokens
  /\ \E token \in alphabet :
       /\ \/ token.type # "CharacterTokens"
          \/ tb.mode # "IN_BODY"
          \/ tb.open_elements # <<>> /\ ~IsHtmlNamespace(tb, Last(tb.open_elements))
       /\ AfterTurn(Call("LoopTurn", [tb EXCEPT !.dispatched = <<>>, !.adopted = <<>>],
                          <<token, FALSE>>), token)
  /\ fed' = fed + 1

\* process_characters in the body, without process_token
LoopCharacters ==
  /\ phase = "parsing" /\ fed < MaxTokens
  /\ tb.mode = "IN_BODY"
  /\ tb.open_elements = <<>> \/ IsHtmlNamespace(tb, Last(tb.open_elements))
  /\ \E token \in alphabet :
       /\ token.type = "CharacterTokens"
       /\ tb' = Call("process_characters", tb, token.data)
  /\ fed' = fed + 1
  /\ UNCHANGED <<phase, alphabet, tokenizer, parser>>

\* process_token is called with the EOF token
LoopEOF ==
  /\ phase = "parsing"
  /\ AfterTurn(Call("LoopTurn", [tb EXCEPT !.dispatched = <<>>, !.adopted = <<>>],
                     <<EOFToken, FALSE>>), EOFToken)
  /\ UNCHANGED fed

\* the loop serves the request of the last handler: another turn
LoopAgain ==
  /\ phase = "reprocessing" /\ Len(tb.dispatched) < MaxTurns
  /\ AfterTurn(Call("LoopTurn", LoopReprocess(tb), <<tb.result.token, tb.result.force_html>>),
               tb.result.token)
  /\ UNCHANGED fed

NextLoop == LoopCall \/ LoopCharacters \/ LoopEOF \/ LoopAgain

\* ENABLED <<LoopAgain>>_vars: every turn appends to tb.dispatched
LoopAgainEnabled == phase = "reprocessing" /\ Len(tb.dispatched) < MaxTurns

\* WF_vars(LoopAgain), with its ENABLED written out: the loop is sequential
\* code, a turn that can be taken is taken
LoopFairness == []<>(~LoopAgainEnabled) \/ []<><<LoopAgain>>_vars

SpecLoop == InitLoop /\ [][NextLoop]_vars /\ LoopFairness

MaxBlocks == 10

RECURSIVE Repeated(_, _)
Repeated(token, n) == IF n = 0 THEN <<>> ELSE <<token>> \o Repeated(token, n - 1)

RECURSIVE Fed(_, _)
\* the builder after the tokenizer delivered tokens
Fed(s, tokens) ==
  IF tokens = <<>> \/ s.exc # "" THEN s
  ELSE Fed(Call("process_token", s, tokens[1]), Tail(tokens))

\* <a> with up to MaxBlocks nested <div>s, and <a><div> with formatting
\* elements between the <div> and a <p>
AdoptionPrefixes ==
  {<<Tag(START, "a")>> \o Repeated(Tag(START, "div"), n) : n \in 0..MaxBlocks}
    \cup {<<Tag(START, "a"), Tag(START, "div")>> \o formatting \o <<Tag(START, "p")>> :
            formatting \in {<<Tag(START, "b"), Tag(START, "i")>>,
                            <<Tag(START, "b"), Tag(START, "i"), Tag(START, "u"),
                              Tag(START, "s"), Tag(START, "em")>>}}

AdoptionAlphabet ==
  {Tag(END, "a"), Tag(START, "a"), Tag(START, "div"), Tag(END, "b"), CharacterTokens(X)}

\* the builder of a whole document after one of the prefixes
InitAdoption ==
  /\ \E prefix \in AdoptionPrefixes : tb = Fed(TreeBuilder("", TRUE), prefix)
  /\ alphabet = AdoptionAlphabet
  /\ phase = "parsing"
  /\ fed = 0
  /\ tokenizer = None
  /\ parser = None

SpecAdoption == InitAdoption /\ [][NextTree]_vars

\* C24: a call of _adoption_agency runs its outer loop at most 8 times, and
\* every inner loop ends within as many turns as the stack had elements when
\* the outer iteration began
C24_AdoptionLoopsBounded ==
  /\ Len(tb.adopted) <= 8
  /\ \A i \in 1..Len(tb.adopted) : tb.adopted[i].inner < tb.adopted[i].depth

\* C24 is exercised: the outer loop ran 8 times, each time through its inner
\* loop, and left the stack with the formatting element still on it
C24_Witness ==
  /\ Len(tb.adopted) = 8
  /\ \A i \in 1..8 : tb.adopted[i].inner >= 1
  /\ \E i \in 1..Len(tb.open_elements) : NameOf(tb, tb.open_elements[i]) = "a"

(* ---------------------------------------------------------------------- *)
(* Formatting elements in the body, in select and in table cells           *)
(* ---------------------------------------------------------------------- *)

FormattingAlphabets ==
  { {Tag(START, "select"), Tag(START, "b"), Tag(END, "b"), Tag(END, "select"),
     CharacterTokens(X)},
    {Tag(START, "table"), Tag(START, "td"), Tag(START, "b"), Tag(START, "i"), Tag(END, "td"),
     Tag(START, "p"), CharacterTokens(X)} }

InitFormatting ==
  /\ tb = TreeBuilder("", TRUE)
  /\ alphabet \in FormattingAlphabets
  /\ phase = "parsing"
  /\ fed = 0
  /\ tokenizer = None
  /\ parser = None

SpecFormatting == InitFormatting /\ [][NextTree]_vars

\* the entries of the active formatting list after its last marker
AfterLastMarker(s) ==
  LET af == s.active_formatting
      markers == {i \in 1..Len(af) : af[i] = FORMAT_MARKER}
      from == IF markers = {} THEN 0 ELSE CHOOSE i \in markers : \A j \in markers : j <= i
  IN  (from + 1)..Len(af)

\* C25: after every token the active formatting list holds, after its last
\* marker, at most three entries of the same name and attribute signature
\* (the tokens fed carry no attributes, so the signatures are all equal)
C25_NoahsArk ==
  \A name \in FORMATTING_ELEMENTS :
    Cardinality({i \in AfterLastMarker(tb) : tb.active_formatting[i].name = name}) <= 3

(* ---------------------------------------------------------------------- *)
(* Reconstruction of the active formatting elements                        *)
(* ---------------------------------------------------------------------- *)

\* the last entry of the active formatting list of s that is a marker or
\* whose node is on the stack of open elements, 0 if there is none
LastSettled(s) ==
  LET af == s.active_formatting
      settled == {i \in 1..Len(af) : af[i] = FORMAT_MARKER \/ InOpenElements(s, af[i].node)}
  IN  IF settled = {} THEN 0 ELSE CHOOSE i \in settled : \A j \in settled : j <= i

\* r is s after a reconstruction in the words of the claim
Reconstructed(s, r) ==
  LET af == s.active_formatting
      stop == LastSettled(s)
      created == [k \in 1..(Len(af) - stop) |-> r.active_formatting[stop + k].node]
  IN  /\ Len(r.active_formatting) = Len(af)
      /\ \A i \in 1..stop : r.active_formatting[i] = af[i]
      /\ r.open_elements = s.open_elements \o created
      /\ \A k \in 1..Len(created) :
           /\ created[k] > Len(s.nodes)
           /\ NameOf(r, created[k]) = af[stop + k].name
           /\ r.active_formatting[stop + k].name = af[stop + k].name
      /\ \A i \in AfterLastMarker(r) : InOpenElements(r, r.active_formatting[i].node)

\* C26: between any two tokens, a reconstruction of the active formatting
\* elements keeps the entries up to the last one that is a marker or on the
\* stack, re-creates every later entry in list order as a new element that it
\* pushes and links to the entry, and leaves every entry after the last
\* marker with a node that is on the stack of open elements
C26_ReconstructionReopens ==
  phase = "parsing" => Reconstructed(tb, _reconstruct_active_formatting_elements(tb))

\* C26 is exercised: in the body, the list holds a settled entry followed by
\* two entries whose nodes left the stack, and the reconstruction pushes two
\* elements
C26_Witness ==
  /\ phase = "parsing" /\ tb.mode = "IN_BODY"
  /\ LastSettled(tb) >= 1
  /\ Len(tb.active_formatting) >= LastSettled(tb) + 2
  /\ Len(_reconstruct_active_formatting_elements(tb).open_elements) = Len(tb.open_elements) + 2

(* ---------------------------------------------------------------------- *)
(* The end tag of template                                                 *)
(* ---------------------------------------------------------------------- *)

\* r is s after a </template> that the HTML rules accepted: it popped the
\* nearest element named template
AcceptedEndTemplate(s, r) ==
  /\ phase = "parsing" /\ s.exc = "" /\ r.exc = ""
  /\ r = Call("process_token", s, Tag(END, "template"))
  /\ r.dispatched[Len(r.dispatched)].handler # "foreign"
  /\ LastNamed(s, {"template"}) # 0
  /\ Len(r.open_elements) < LastNamed(s, {"template"})

\* the effects of an accepted </template>
EndTemplateEffects(s, r) ==
  /\ r.open_elements = Prefix(s.open_elements, LastNamed(s, {"template"}) - 1)
  /\ r.active_formatting = _clear_active_formatting_up_to_marker(s).active_formatting
  /\ s.template_modes # <<>> /\ r.template_modes = Front(s.template_modes)
  /\ r.mode = _reset_insertion_mode(r).mode

\* C27: an accepted </template> pops the stack through the nearest template
\* element, clears the active formatting list through its last marker, pops
\* exactly one template mode and resets the insertion mode
C27_EndTemplate == [][AcceptedEndTemplate(tb, tb') => EndTemplateEffects(tb, tb')]_vars

(* ---------------------------------------------------------------------- *)
(* Templates in the head of a whole document                               *)
(* ---------------------------------------------------------------------- *)

HeadTemplateAlphabet ==
  {Tag(START, "template"), Tag(END, "template"), Tag(END, "title"), Tag(START, "p"),
   Tag(START, "b"), CharacterTokens(X)}

InitHeadTemplate ==
  /\ tb = TreeBuilder("", TRUE)
  /\ alphabet = HeadTemplateAlphabet
  /\ phase = "parsing"
  /\ fed = 0
  /\ tokenizer = None
  /\ parser = None

SpecHeadTemplate == InitHeadTemplate /\ [][NextTree]_vars

\* the HTML template elements on the stack of open elements of s
OpenTemplates(s) ==
  {i \in 1..Len(s.open_elements) :
     /\ NameOf(s, s.open_elements[i]) = "template"
     /\ IsHtmlNamespace(s, s.open_elements[i])}

\* C28: after every token the template-mode stack is as long as the number
\* of HTML template elements on the stack of open elements
C28_TemplateModesMatchStack ==
  (phase = "parsing" /\ tb.exc = "") => Len(tb.template_modes) = Cardinality(OpenTemplates(tb))

(* ---------------------------------------------------------------------- *)
(* Forms and templates                                                     *)
(* ---------------------------------------------------------------------- *)

FormAlphabet ==
  {Tag(START, "form"), Tag(END, "form"), Tag(START, "template"), Tag(END, "template"),
   Tag(START, "p"), CharacterTokens(X)}

FormContexts == {"", "div"}

InitForm ==
  /\ \E fragment_context \in FormContexts : tb = TreeBuilder(fragment_context, TRUE)
  /\ alphabet = FormAlphabet
  /\ phase = "parsing"
  /\ fed = 0
  /\ tokenizer = None
  /\ parser = None

SpecForm == InitForm /\ [][NextTree]_vars

\* r is s after a <form> start tag that the handler of IN_BODY took
FormStartInBody(s, r) ==
  /\ phase = "parsing" /\ s.exc = "" /\ s.mode = "IN_BODY"
  /\ r = Call("process_token", s, Tag(START, "form"))
  /\ Len(r.dispatched) = 1 /\ r.dispatched[1].handler = "IN_BODY"

\* the start tag was rejected: a parse error and no new element
FormRejected(s, r) == r.nodes = s.nodes /\ Len(r.errors) = Len(s.errors) + 1

\* C29: in IN_BODY a <form> start tag is rejected exactly when the form
\* pointer is set and no template element is on the stack of open elements
C29_FormRejectedOutsideTemplate ==
  [][FormStartInBody(tb, tb') =>
       (FormRejected(tb, tb') <=> (tb.form_element # None /\ LastNamed(tb, {"template"}) = 0))]_vars

(* ---------------------------------------------------------------------- *)
(* The start tag of table in the three quirks modes                        *)
(* ---------------------------------------------------------------------- *)

\* doctypes that leave the document in no-quirks, limited-quirks and quirks
\* mode, a paragraph and a table
QuirksAlphabet ==
  {DoctypeToken,
   DoctypeTokenOf(Doctype("html", <<"-//W3C//DTD XHTML 1.0 Transitional//EN">>, <<>>, FALSE)),
   DoctypeTokenOf(Doctype("html", <<>>, <<>>, TRUE)),
   Tag(START, "p"), Tag(START, "b"), Tag(START, "table"), CharacterTokens(X)}

InitQuirks ==
  /\ tb = TreeBuilder("", TRUE)
  /\ alphabet = QuirksAlphabet
  /\ phase = "parsing"
  /\ fed = 0
  /\ tokenizer = None
  /\ parser = None

SpecQuirks == InitQuirks /\ [][NextTree]_vars

\* r is s after a <table> start tag that the handler of IN_BODY took while a
\* p element was open in button scope
TableStartInBody(s, r) ==
  /\ phase = "parsing" /\ s.exc = "" /\ s.mode = "IN_BODY"
  /\ r = Call("process_token", s, Tag(START, "table"))
  /\ Len(r.dispatched) = 1 /\ r.dispatched[1].handler = "IN_BODY"
  /\ _has_element_in_button_scope(s, "p")

\* the table was inserted and pushed, frameset-ok cleared, the mode switched
TableInserted(s, r) ==
  /\ Len(r.nodes) = Len(s.nodes) + 1
  /\ NameOf(r, Len(r.nodes)) = "table"
  /\ r.open_elements # <<>> /\ Last(r.open_elements) = Len(r.nodes)
  /\ ~r.frameset_ok
  /\ r.mode = "IN_TABLE"

\* the open p was closed: the stack lost the p and what was above it
ClosedP(s, r) == Front(r.open_elements) = Prefix(s.open_elements, LastNamed(s, {"p"}) - 1)

\* the stack was left as it was
KeptP(s, r) == Front(r.open_elements) = s.open_elements

\* C30 as stated: the open p is closed only in no-quirks mode, and in every
\* mode the table is inserted
C30_TableClosesPInNoQuirksOnly ==
  [][TableStartInBody(tb, tb') =>
       /\ TableInserted(tb, tb')
       /\ IF tb.quirks_mode = "no-quirks" THEN ClosedP(tb, tb') ELSE KeptP(tb, tb')]_vars

\* C30, amended: in IN_BODY a <table> start tag closes an open p in button
\* scope unless the document is in quirks mode (in no-quirks and in
\* limited-quirks mode), and in every mode inserts the table, clears
\* frameset-ok and switches to IN_TABLE
C30_TableClosesPUnlessQuirks ==
  [][TableStartInBody(tb, tb') =>
       /\ TableInserted(tb, tb')
       /\ IF tb.quirks_mode # "quirks" THEN ClosedP(tb, tb') ELSE KeptP(tb, tb')]_vars

\* C30 is exercised: in limited-quirks mode a table was inserted as the next
\* sibling of a p that it closed
C30_Witness ==
  /\ tb.quirks_mode = "limited-quirks" /\ tb.mode = "IN_TABLE"
  /\ tb.open_elements # <<>> /\ NameOf(tb, Last(tb.open_elements)) = "table"
  /\ \E p \in 1..Len(tb.nodes) :
       /\ NameOf(tb, p) = "p"
       /\ ~InOpenElements(tb, p)
       /\ tb.nodes[p].parent = tb.nodes[Last(tb.open_elements)].parent

(* ---------------------------------------------------------------------- *)
(* The start tag of frameset in the body                                   *)
(* ---------------------------------------------------------------------- *)

FramesetAlphabet ==
  {Tag(START, "frameset"), Tag(START, "p"), Tag(START, "svg"), Tag(START, "template"),
   Tag(END, "title"), Tag(START, "table"), CharacterTokens(SP), CharacterTokens(X)}

InitFrameset ==
  /\ tb = TreeBuilder("", TRUE)
  /\ alphabet = FramesetAlphabet
  /\ phase = "parsing"
  /\ fed = 0
  /\ tokenizer = None
  /\ parser = None

SpecFrameset == InitFrameset /\ [][NextTree]_vars

\* r is s after a <frameset> start tag that the handler of IN_BODY took
FramesetStartInBody(s, r) ==
  /\ phase = "parsing" /\ s.exc = "" /\ s.mode = "IN_BODY"
  /\ r = Call("process_token", s, Tag(START, "frameset"))
  /\ Len(r.dispatched) = 1 /\ r.dispatched[1].handler = "IN_BODY"

\* the body element is the second element from the bottom of the stack
BodyIsSecond(s) == Len(s.open_elements) >= 2 /\ NameOf(s, s.open_elements[2]) = "body"

\* the start tag was honored: a frameset element was made
FramesetHonored(s, r) == Len(r.nodes) = Len(s.nodes) + 1 /\ NameOf(r, NewId(r)) = "frameset"

\* the body was detached, the stack is the root html and the new frameset,
\* which is the last child of the root, and the mode is IN_FRAMESET
FramesetEffects(s, r) ==
  LET html == s.open_elements[1]
      body == s.open_elements[2]
  IN  /\ NameOf(s, html) = "html" /\ s.nodes[html].parent = s.document
      /\ r.nodes[body].parent = None
      /\ IndexOf(r.nodes[html].children, body) = 0
      /\ r.open_elements = <<html, NewId(r)>>
      /\ Last(r.nodes[html].children) = NewId(r)
      /\ r.nodes[NewId(r)].parent = html
      /\ r.mode = "IN_FRAMESET"

\* the token was ignored: the tree and the stack are as before
FramesetIgnored(s, r) == r.nodes = s.nodes /\ r.open_elements = s.open_elements /\ r.mode = s.mode

HiddenInput == TagWith(START, "input", <<[name |-> "type", value |-> "HIDDEN"]>>, FALSE)

TextInput == TagWith(START, "input", <<[name |-> "type", value |-> "text"]>>, FALSE)

TableInputAlphabet ==
  {Tag(START, "table"), HiddenInput, TextInput, Tag(START, "form"), Tag(START, "p"),
   Tag(START, "template"), Tag(START, "tr"), CharacterTokens(X)}

TableInputContexts == {"", "table"}

InitTableInput ==
  /\ \E fragment_context \in TableInputContexts : tb = TreeBuilder(fragment_context, TRUE)
  /\ alphabet = TableInputAlphabet
  /\ phase = "parsing"
  /\ fed = 0
  /\ tokenizer = None
  /\ parser = None

SpecTableInput == InitTableInput /\ [][NextTree]_vars

\* r is s after the token, which the handler of IN_TABLE took
TakenInTable(s, r, token) ==
  /\ phase = "parsing" /\ s.exc = "" /\ s.mode = "IN_TABLE"
  /\ r = Call("process_token", s, token)
  /\ Len(r.dispatched) = 1 /\ r.dispatched[1].handler = "IN_TABLE"

\* the node that takes the children of the current node of s
CurrentParent(s) ==
  LET target == Call("_current_node_or_html", s, <<>>)
  IN  IF IsTemplateNode(s, target) THEN s.nodes[target].template_content ELSE target

\* the elements that the table modes clear the stack back to
TableStructural == {"table", "tbody", "tfoot", "thead", "tr", "template", "html"}

\* one element named name was made, as the last child of parent, with one
\* parse error, and the stack is as before
InsertedAndPopped(s, r, name, parent) ==
  /\ Len(r.nodes) = Len(s.nodes) + 1 /\ NameOf(r, NewId(r)) = name
  /\ r.nodes[NewId(r)].parent = parent
  /\ r.nodes[parent].children = Append(s.nodes[parent].children, NewId(r))
  /\ Len(r.errors) = Len(s.errors) + 1
  /\ r.open_elements = s.open_elements
  /\ r.mode = s.mode

\* a <form> start tag with no form pointer and no template open makes a form
\* element, the form pointer, that is not on the stack
FormInTable(s, r) ==
  (s.form_element = None /\ LastNamed(s, {"template"}) = 0)
    => /\ InsertedAndPopped(s, r, "form", CurrentParent(s))
       /\ r.form_element = NewId(r)
       /\ IndexOf(r.open_elements, r.form_element) = 0

ColoredFont == TagWith(START, "font", <<[name |-> "color", value |-> "red"]>>, FALSE)

BreakoutAlphabet ==
  {Tag(START, "math"), Tag(START, "mi"), Tag(START, "mglyph"), Tag(START, "svg"),
   Tag(START, "desc"), Tag(START, "p"), Tag(START, "font"), ColoredFont, CharacterTokens(X)}

InitBreakout ==
  /\ tb = TreeBuilder("", TRUE)
  /\ alphabet = BreakoutAlphabet
  /\ phase = "parsing"
  /\ fed = 0
  /\ tokenizer = None
  /\ parser = None

SpecBreakout == InitBreakout /\ [][NextTree]_vars

\* r is s after a start tag that breaks out of foreign content
BrokeOut(s, r) ==
  /\ phase = "parsing" /\ s.exc = ""
  /\ \E token \in {Tag(START, "p"), ColoredFont} : r = Call("process_token", s, token)
  /\ Len(r.dispatched) >= 2 /\ r.dispatched[1].handler = "foreign"

\* the elements of the stack of s that end the popping: html elements, HTML
\* integration points and MathML text integration points
BreakoutStops(s) ==
  {i \in 1..Len(s.open_elements) :
     \/ IsHtmlNamespace(s, s.open_elements[i])
     \/ _is_html_integration_point(s, s.open_elements[i])
     \/ _is_mathml_text_integration_point(s, s.open_elements[i])}

\* the same without the MathML text integration points
BreakoutStopsOfCode(s) ==
  {i \in 1..Len(s.open_elements) :
     \/ IsHtmlNamespace(s, s.open_elements[i])
     \/ _is_html_integration_point(s, s.open_elements[i])}

Topmost(s, stops) == s.open_elements[CHOOSE i \in stops : \A j \in stops : j <= i]

\* C33: a start tag of the breakout set, or a font with a color, face or size
\* attribute, in foreign content pops the stack until its top is an html
\* element, an HTML integration point or a MathML text integration point,
\* never the root, and is then handled by the rules of the insertion mode
C33_BreakoutStopsAtIntegrationPoints ==
  [][BrokeOut(tb, tb') =>
       /\ BreakoutStops(tb) # {}
       /\ tb'.dispatched[2].node = Topmost(tb, BreakoutStops(tb))
       /\ tb'.dispatched[2].handler = tb'.dispatched[2].mode]_vars

\* what the code does: the popping goes past MathML text integration points
C33_BreakoutStopsAtHtmlIntegrationPoints ==
  [][BrokeOut(tb, tb') =>
       /\ BreakoutStopsOfCode(tb) # {}
       /\ tb'.dispatched[2].node = Topmost(tb, BreakoutStopsOfCode(tb))
       /\ tb'.dispatched[2].handler = tb'.dispatched[2].mode]_vars

(* ---------------------------------------------------------------------- *)
(* The start tag of button                                                 *)
(* ---------------------------------------------------------------------- *)

ButtonAlphabet ==
  {Tag(START, "button"), Tag(START, "select"), Tag(START, "p"), Tag(START, "b"),
   Tag(START, "div"), CharacterTokens(X)}

ButtonContexts == {"", "div"}

InitButton ==
  /\ \E fragment_context \in ButtonContexts : tb = TreeBuilder(fragment_context, TRUE)
  /\ alphabet = ButtonAlphabet
  /\ phase = "parsing"
  /\ fed = 0
  /\ tokenizer = None
  /\ parser = None

SpecButton == InitButton /\ [][NextTree]_vars

ButtonInScope(s) == Call("_has_element_in_scope", s, <<"button", DEFAULT_SCOPE_TERMINATORS, TRUE>>)

\* r is s after a <button> start tag that the handler of IN_BODY took while a
\* button element was in scope
ButtonStartInBody(s, r) ==
  /\ phase = "parsing" /\ s.exc = "" /\ s.mode = "IN_BODY"
  /\ r = Call("process_token", s, Tag(START, "button"))
  /\ Len(r.dispatched) = 1 /\ r.dispatched[1].handler = "IN_BODY"
  /\ ButtonInScope(s)

\* the stack was popped through the nearest button and the new button pushed,
\* child of the element below the old button; the list of active formatting
\* elements is as before
ButtonClosed(s, r) ==
  LET old == LastNamed(s, {"button"})
  IN  /\ Len(r.nodes) = Len(s.nodes) + 1 /\ NameOf(r, NewId(r)) = "button"
      /\ r.open_elements = Append(Prefix(s.open_elements, old - 1), NewId(r))
      /\ r.nodes[NewId(r)].parent = s.open_elements[old - 1]
      /\ r.active_formatting = s.active_formatting
      /\ Len(r.errors) = Len(s.errors) + 1

\* between two html button elements of the stack there is a scope terminator
ButtonsApart(s) ==
  LET oe == s.open_elements
      button(i) == NameOf(s, oe[i]) = "button" /\ IsHtmlNamespace(s, oe[i])
  IN  \A i, j \in 1..Len(oe) :
        (i < j /\ button(i) /\ button(j)) =>
          \E k \in (i + 1)..(j - 1) :
            NameOf(s, oe[k]) \in DEFAULT_SCOPE_TERMINATORS /\ IsHtmlNamespace(s, oe[k])

AtFinish(s) == Call("process_token", s, EOFToken)

\* r is s after finish(): the html wrapper root has left the fragment root
\* and the tree below it, and its children are the children of the fragment
\* root, in their order, each with the fragment root as parent
Unwrapped(s, r) ==
  LET root == s.nodes[s.document].children[1]
      moved == s.nodes[root].children
  IN  /\ NameOf(s, root) = "html"
      /\ r.nodes[r.document].children = Tail(s.nodes[s.document].children) \o moved
      /\ \A k \in 1..Len(moved) : r.nodes[moved[k]].parent = r.document
      /\ IndexOf(Preorder(r, r.document), root) = 0
      /\ r.nodes[root].parent = None

RowAlphabet ==
  {Tag(START, "table"), Tag(START, "tr"), Tag(END, "tr"), Tag(END, "table"),
   Tag(START, "td"), Tag(START, "template"), CharacterTokens(X)}

RowContexts == {"", "tbody"}

InitRow ==
  /\ \E fragment_context \in RowContexts : tb = TreeBuilder(fragment_context, TRUE)
  /\ alphabet = RowAlphabet
  /\ phase = "parsing"
  /\ fed = 0
  /\ tokenizer = None
  /\ parser = None

SpecRow == InitRow /\ [][NextTree]_vars

\* the tokens of the alphabet that close a tr in table scope from IN_ROW
ClosesRow(token) ==
  \/ IsEnd(token, {"tr", "table"})
  \/ IsStart(token, {"tr", "table"})

\* r is s after token, which the handler of IN_ROW took and which closed the
\* row: the tr element, or for </table> the table, is in table scope
RowClosed(s, r, token) ==
  /\ phase = "parsing" /\ s.exc = "" /\ s.mode = "IN_ROW"
  /\ token \in alphabet /\ ClosesRow(token)
  /\ r = Call("process_token", s, token)
  /\ r.dispatched[1].handler = "IN_ROW"
  /\ _has_in_table_scope(s, IF IsEnd(token, {"table"}) THEN "table" ELSE "tr")

\* the mode the row was closed into is IN_TABLE_BODY, and a token other than
\* </tr> is handled next by the rules of IN_TABLE_BODY
ToTableBody(r, token) ==
  IF IsEnd(token, {"tr"}) THEN Len(r.dispatched) = 1 /\ r.mode = "IN_TABLE_BODY"
  ELSE /\ Len(r.dispatched) >= 2
       /\ r.dispatched[1].requested = "IN_TABLE_BODY"
       /\ r.dispatched[2].mode = "IN_TABLE_BODY"
       /\ r.dispatched[2].handler = "IN_TABLE_BODY"

\* C36: when a tr element is closed from IN_ROW the insertion mode becomes
\* IN_TABLE_BODY and the token, if reprocessed, is handled by the rules of
\* IN_TABLE_BODY, also when the row lies inside a template
C36_RowClosesToTableBody ==
  [][\A token \in RowAlphabet : RowClosed(tb, tb', token) => ToTableBody(tb', token)]_vars

\* what holds: outside a template the row closes into IN_TABLE_BODY
C36_RowClosesToTableBodyOutsideTemplate ==
  [][\A token \in RowAlphabet :
       (RowClosed(tb, tb', token) /\ tb.template_modes = <<>>) => ToTableBody(tb', token)]_vars

(* ---------------------------------------------------------------------- *)
(* No node twice on the stack or in the list of active formatting elements *)
(* ---------------------------------------------------------------------- *)

\* no value occurs at two indexes of seq
NoDuplicates(seq) == \A i, j \in 1..Len(seq) : seq[i] = seq[j] => i = j

\* the nodes of the entries of the list of active formatting elements that
\* are not markers
FormattingNodes(s) ==
  LET entries == SelectSeq(s.active_formatting, LAMBDA entry : entry.name # "#marker")
  IN  [i \in 1..Len(entries) |-> entries[i].node]

\* C37: after every token no element occurs twice on the stack of open
\* elements and no node is referenced by two entries of the list of active
\* formatting elements
C37_NoNodeTwice ==
  (phase = "parsing" /\ tb.exc = "")
    => NoDuplicates(tb.open_elements) /\ NoDuplicates(FormattingNodes(tb))

(* ---------------------------------------------------------------------- *)
(* The foster-parenting bit                                                *)
(* ---------------------------------------------------------------------- *)

\* s2 is s1 after one call of process_token or process_characters
TokenStep(s1, s2) == phase = "parsing" /\ s1.exc = "" /\ fed' = fed + 1 /\ s2.exc = ""

\* the bit is as before the call and false
BitRestored(s1, s2) == s2.insert_from_table = s1.insert_from_table /\ ~s2.insert_from_table

\* C38: insert_from_table is true only while a token is dispatched to the
\* rules of IN_BODY from a table mode, and each such dispatch restores it, so
\* after process_token the bit has the value it had before the token
C38_BitOnlyForInBody ==
  [][TokenStep(tb, tb') =>
       /\ BitRestored(tb, tb')
       /\ \A k \in 1..Len(tb'.dispatched) :
            /\ tb'.dispatched[k].fostering \subseteq {"IN_BODY"}
            /\ tb'.dispatched[k].fostering # {} => tb'.dispatched[k].handler \in TABLE_MODES]_vars

\* C38 (amended): insert_from_table is true only while a token is dispatched
\* to the rules of IN_BODY from a table mode or while IN_TABLE_TEXT flushes
\* pending table text that is not all whitespace; both restore it, so after
\* process_token the bit has the value it had before the token
C38_BitForInBodyAndFlush ==
  [][TokenStep(tb, tb') =>
       /\ BitRestored(tb, tb')
       /\ \A k \in 1..Len(tb'.dispatched) :
            /\ "IN_BODY" \in tb'.dispatched[k].fostering => tb'.dispatched[k].handler \in TABLE_MODES
            /\ "flush" \in tb'.dispatched[k].fostering => tb'.dispatched[k].handler = "IN_TABLE_TEXT"]_vars

\* an element was foster-parented: it is on the stack above a table that is
\* not its parent, and the last call dispatched to IN_BODY with the bit set
C38_Witness ==
  /\ phase = "parsing" /\ ~tb.insert_from_table
  /\ \E k \in 1..Len(tb.dispatched) : "IN_BODY" \in tb.dispatched[k].fostering
  /\ Len(tb.open_elements) >= 2
  /\ NameOf(tb, tb.open_elements[Len(tb.open_elements) - 1]) = "table"
  /\ tb.nodes[Last(tb.open_elements)].parent # tb.open_elements[Len(tb.open_elements) - 1]

(* ---------------------------------------------------------------------- *)
(* Pending table text                                                      *)
(* ---------------------------------------------------------------------- *)

LF == <<"\n">>

TableTextAlphabet ==
  {Tag(START, "table"), Tag(START, "tr"), Tag(START, "textarea"), Tag(END, "textarea"),
   Tag(START, "p"), CommentToken(X), CharacterTokens(X), CharacterTokens(SP),
   CharacterTokens(LF)}

TableTextContexts == {"", "table"}

InitTableText ==
  /\ \E fragment_context \in TableTextContexts : tb = TreeBuilder(fragment_context, TRUE)
  /\ alphabet = TableTextAlphabet
  /\ phase = "parsing"
  /\ fed = 0
  /\ tokenizer = None
  /\ parser = None

SpecTableText == InitTableText /\ [][NextTree]_vars

\* the number of characters in the text nodes of s
TextLength(s) ==
  LET F[n \in 0..Len(s.nodes)] ==
        IF n = 0 THEN 0
        ELSE F[n - 1] + (IF s.nodes[n].name = "#text" THEN Len(s.nodes[n].data) ELSE 0)
  IN  F[Len(s.nodes)]

\* r is s after a token that is no character token, handled by IN_TABLE_TEXT;
\* the current node is no textarea, whose first line feed is to be ignored
LeftTableText(s, r) ==
  /\ phase = "parsing" /\ s.exc = "" /\ s.mode = "IN_TABLE_TEXT"
  /\ NameOf(s, Last(s.open_elements)) # "textarea"
  /\ \E token \in alphabet \cup {EOFToken} :
       token.type # "CharacterTokens" /\ r = Call("process_token", s, token)
  /\ r.exc = ""
  /\ r.dispatched[1].handler = "IN_TABLE_TEXT"

\* the buffer was flushed, each of its characters into one text node, with
\* the parse error of foster parenting unless all are whitespace, and the
\* token was handled next in the saved table mode
Flushed(s, r) ==
  LET data == JoinText(s.pending_table_text)
      flushed == _flush_pending_table_text(s)
  IN  /\ r.pending_table_text = <<>>
      /\ r.dispatched[1].requested = s.table_text_original_mode
      /\ r.dispatched[2].mode = s.table_text_original_mode
      /\ Len(flushed.errors) = Len(s.errors) + (IF is_all_whitespace(data) THEN 0 ELSE 1)
      /\ TextLength(flushed) = TextLength(s) + Len(data)
      /\ TextLength(r) = TextLength(s) + Len(data)

\* the same but for the count of the characters
FlushedButForLength(s, r) ==
  LET data == JoinText(s.pending_table_text)
      flushed == _flush_pending_table_text(s)
  IN  /\ r.pending_table_text = <<>>
      /\ r.dispatched[1].requested = s.table_text_original_mode
      /\ r.dispatched[2].mode = s.table_text_original_mode
      /\ Len(flushed.errors) = Len(s.errors) + (IF is_all_whitespace(data) THEN 0 ELSE 1)
      /\ TextLength(r) \in {TextLength(s) + Len(data), TextLength(s) + Len(data) - 1}

C39_TableTextFlushedButForLength ==
  [][/\ (phase' = "parsing" /\ tb'.exc = "" /\ tb'.pending_table_text # <<>>)
          => tb'.mode = "IN_TABLE_TEXT"
     /\ LeftTableText(tb, tb') => FlushedButForLength(tb, tb')]_vars

(* ---------------------------------------------------------------------- *)
(* Termination of Tokenizer.run                                            *)
(* ---------------------------------------------------------------------- *)

MaxRun == 5

RunChars == {"<", "!", "/", ">", "b", " "}

RECURSIVE Strings(_)
\* the strings of at most n characters of RunChars
Strings(n) ==
  IF n = 0 THEN {<<>>}
  ELSE LET shorter == Strings(n - 1)
       IN  shorter \cup {Append(d, c) : d \in shorter, c \in RunChars}

\* elements whose start tag switches the tokenizer to RCDATA, RAWTEXT, PLAINTEXT
RunElements ==
  {<<"t", "i", "t", "l", "e">>, <<"s", "t", "y", "l", "e">>,
   <<"p", "l", "a", "i", "n", "t", "e", "x", "t">>}

\* content of such an element: two characters, then its end tag whole, cut
\* short or missing
RawRuns ==
  UNION {{StartTag(name) \o content \o closing :
            content \in Strings(2),
            closing \in {<<>>, <<"<", "/">> \o name, EndTag(name)}} : name \in RunElements}

RunInputs == Strings(MaxRun) \cup RawRuns

InitRun ==
  /\ \E html \in RunInputs :
       LET constructed(j) == parser = j.parser /\ tb = j.tree_builder /\ tokenizer = j.tokenizer
       IN  constructed(JustHTML(html, TRUE, "", FALSE))
  /\ phase = "parsing"
  /\ fed = 0
  /\ alphabet = {}

RunEnabled == phase = "parsing" /\ ~tokenizer.eof /\ tokenizer.state \in STATE_HANDLERS

\* WF_vars(TokenizerStep), with its ENABLED written out: run() is the loop
\* `while True: if self.step(): break`, a step that can be taken is taken
RunFairness == []<>(~RunEnabled) \/ []<><<TokenizerStep>>_vars

SpecRun == InitRun /\ [][NextParse]_vars /\ RunFairness

\* an iteration of the loop of run()
RunStep == phase = "parsing" /\ ~tokenizer.eof

\* the step read past at least one character of the input
Consumes == tokenizer'.pos > tokenizer.pos

\* the step took the character left by _reconsume_current, or left one
Reconsumes == tokenizer.reconsume \/ tokenizer'.reconsume

\* the handler returned True
ReportsEOF == tokenizer'.eof

\* the sink raised: run() is left by the exception
Raises == phase' = "raised"

\* _state_markup_declaration_open found neither DOCTYPE nor [CDATA[
DeclarationToBogusComment ==
  /\ tokenizer.state = "MARKUP_DECLARATION_OPEN" /\ tokenizer'.state = "BOGUS_COMMENT"
  /\ tokenizer'.pos = tokenizer.pos /\ ~tokenizer.reconsume /\ ~tokenizer'.reconsume

\* C40, each step as stated: every step of the run loop consumes at least
\* one input character, or changes state with the reconsume bit, or reports
\* EOF
C40_EveryStepConsumesReconsumesOrEnds ==
  [][RunStep => Consumes \/ Reconsumes \/ ReportsEOF \/ Raises]_vars

RunProgress ==
  RunStep => Consumes \/ Reconsumes \/ ReportsEOF \/ Raises \/ DeclarationToBogusComment

\* the loop of run() is over: step() returned True or the sink raised
Terminated == tokenizer.eof \/ phase # "parsing"

\* at most one EOFToken was delivered, nothing after it, and one was
\* delivered when step() returned True
EofOnceLast ==
  /\ Len(tokenizer.eof_at) <= 1
  /\ tokenizer.eof_at # <<>> => tokenizer.eof_at[1] = tokenizer.delivered
  /\ tokenizer.eof /\ tb.exc = "" => tokenizer.eof_at # <<>>

\* every state the tokenizer comes to has its handler among the modelled ones
Handled == phase = "parsing" /\ ~tokenizer.eof => tokenizer.state \in STATE_HANDLERS

\* C40: for every input the run loop terminates: every step consumes at
\* least one input character, or takes or leaves a reconsumed character, or
\* reports EOF, or is the step from MARKUP_DECLARATION_OPEN to BOGUS_COMMENT
\* that consumes nothing and does not touch the reconsume bit; the loop ends
\* after finitely many steps; exactly one EOFToken is delivered to the sink,
\* as the last token
C40_RunTerminates ==
  /\ [][RunProgress]_vars
  /\ [](EofOnceLast /\ Handled)
  /\ <>Terminated

\* C40 is exercised: run() ended on an input that opened with <! and went
\* through MARKUP_DECLARATION_OPEN, after delivering a comment and then EOF
C40_Witness ==
  /\ tokenizer.eof /\ phase = "parsing"
  /\ tokenizer.length >= 3 /\ SubSeq(tokenizer.buffer, 1, 2) = <<"<", "!">>
  /\ tokenizer.delivered >= 2 /\ tokenizer.eof_at = <<tokenizer.delivered>>

(* ---------------------------------------------------------------------- *)
(* The error list of JustHTML                                              *)
(* ---------------------------------------------------------------------- *)

\* JustHTML.__init__ got to the merge of the two error lists
Merged == phase = "finished" \/ parser.exc = "StrictModeError"

\* C9: the errors of the returned list are in the order in which they were
\* recorded during the parse, that of the tokens that caused them, whether
\* the tokenizer or the tree builder reported them
C9_ErrorsInEmissionOrder ==
  Merged => \A i, j \in 1..Len(parser.errors) :
              i < j => parser.errors[i].order < parser.errors[j].order

\* C10: in strict mode the error carried by StrictModeError is the one
\* recorded first among the errors of the tokenizer and of the tree builder,
\* and StrictModeError is raised only when an error was recorded
C10_StrictRaisesFirstError ==
  parser.exc = "StrictModeError" =>
    /\ parser.errors # <<>>
    /\ parser.raised.order = 1

(* ---------------------------------------------------------------------- *)
(* The trees of the example documents                                      *)
(* ---------------------------------------------------------------------- *)

RECURSIVE Shape(_, _)
\* the subtree at n, as <<name, data, shapes of the children>>
Shape(s, n) ==
  <<s.nodes[n].name, s.nodes[n].data,
    [i \in 1..Len(s.nodes[n].children) |-> Shape(s, s.nodes[n].children[i])]>>

El(name, kids) == <<name, <<>>, kids>>

Txt(data) == <<"#text", data, <<>>>>

ChildrenOf(s, n) == {s.nodes[n].children[i] : i \in 1..Len(s.nodes[n].children)}

ChildrenNamed(s, n, name) == {c \in ChildrenOf(s, n) : NameOf(s, c) = name}

\* the body element of a parsed document
BodyOf(s) ==
  CHOOSE b \in 1..Len(s.nodes) :
    /\ NameOf(s, b) = "body"
    /\ \E h \in ChildrenOf(s, s.document) : NameOf(s, h) = "html" /\ b \in ChildrenOf(s, h)

\* the parse recorded the error code, if it collects errors at all
Reported(s, code) == s.collect_errors => Recorded(s, code)

\* JustHTML(html) returned: html was parsed as a document
ParsedDocument(html) ==
  phase = "finished" /\ tokenizer.buffer = html /\ tb.fragment_context = ""

\* C4 as stated: <a><div><a>x</a></div> leaves one a directly under body,
\* whose child div contains an a holding the text x
C4_DivInsideA ==
  ParsedDocument(DocNestedA) =>
    /\ Reported(tb, "adoption-agency-1.3")
    /\ Cardinality(ChildrenNamed(tb, BodyOf(tb), "a")) = 1
    /\ \E a \in ChildrenNamed(tb, BodyOf(tb), "a") :
         \E div \in ChildrenNamed(tb, a, "div") :
           \E inner \in ChildrenNamed(tb, div, "a") :
             Shape(tb, inner) = El("a", <<Txt(<<"x">>)>>)

\* C4 (amended): for <a><div><a>x</a></div> the second <a> runs the adoption
\* agency algorithm; body holds one a, left empty, and after it the div,
\* which holds the empty a created by the adoption agency and after it the a
\* created for the second start tag, holding the text x
C4_DivBesideA ==
  ParsedDocument(DocNestedA) =>
    /\ Reported(tb, "adoption-agency-1.3")
    /\ Shape(tb, BodyOf(tb)) =
         El("body", <<El("a", <<>>),
                      El("div", <<El("a", <<>>), El("a", <<Txt(<<"x">>)>>)>>)>>)

\* C4 is exercised: <a><div><a>x</a></div> was parsed to its end as a
\* document and the adoption agency ran
C4_Witness ==
  /\ ParsedDocument(DocNestedA)
  /\ Recorded(tb, "adoption-agency-1.3")
  /\ Cardinality(ChildrenNamed(tb, BodyOf(tb), "a")) = 1

\* C5 as stated: <p>a<b>b<i>c</p>d</i>e</b> yields
\* body>[p>[a, b>[b, i>[c]]], i>[d], b>[e]]
C5_SiblingItalicAndBold ==
  ParsedDocument(DocMisnested) =>
    Shape(tb, BodyOf(tb)) =
      El("body", <<El("p", <<Txt(<<"a">>), El("b", <<Txt(<<"b">>), El("i", <<Txt(<<"c">>)>>)>>)>>),
                   El("i", <<Txt(<<"d">>)>>),
                   El("b", <<Txt(<<"e">>)>>)>>)

\* C5 (amended): for <p>a<b>b<i>c</p>d</i>e</b> the end tag </p> pops p with
\* the error end-tag-too-early and without the adoption agency; the text d
\* reconstructs b and i as clones, and the tree is
\* body>[p>[a, b>[b, i>[c]]], b>[i>[d], e]]
C5_ItalicInsideBold ==
  ParsedDocument(DocMisnested) =>
    /\ Reported(tb, "end-tag-too-early")
    /\ ~Recorded(tb, "adoption-agency-1.3")
    /\ Shape(tb, BodyOf(tb)) =
         El("body", <<El("p", <<Txt(<<"a">>), El("b", <<Txt(<<"b">>), El("i", <<Txt(<<"c">>)>>)>>)>>),
                      El("b", <<El("i", <<Txt(<<"d">>)>>), Txt(<<"e">>)>>)>>)

\* C5 is exercised: <p>a<b>b<i>c</p>d</i>e</b> was parsed to its end as a
\* document, with two b elements and two i elements in the tree
C5_Witness ==
  /\ ParsedDocument(DocMisnested)
  /\ Cardinality({n \in OutputTree(tb) : NameOf(tb, n) = "i"}) = 2
  /\ Cardinality({n \in OutputTree(tb) : NameOf(tb, n) = "b"}) = 2

(* ---------------------------------------------------------------------- *)
(* Foster parenting                                                        *)
(* ---------------------------------------------------------------------- *)

\* between two tokens the current node of s is a table, tbody, tfoot, thead
\* or tr, under a table or a template of the stack
FosterCase(s) ==
  /\ phase = "parsing" /\ s.exc = "" /\ s.open_elements # <<>>
  /\ NameOf(s, Last(s.open_elements)) \in {"table", "tbody", "tfoot", "thead", "tr"}
  /\ LastNamed(s, {"table", "template"}) # 0

\* s while a table mode has its token handled by the rules of the body
FosterActive(s) == [s EXCEPT !.insert_from_table = TRUE]

\* node is in r where the foster parent rule puts it, the stack being that
\* of s: last in the content of the template that is more recent than the
\* nearest table, otherwise in the parent of that table, right before it
FosterPlaced(s, r, node) ==
  LET last_template == LastNamed(s, {"template"})
      last_table == LastNamed(s, {"table"})
      table == s.open_elements[last_table]
      content == s.nodes[s.open_elements[last_template]].template_content
      parent == r.nodes[node].parent
      kids == r.nodes[parent].children
  IN  IF last_template > last_table
      THEN parent = content /\ Last(kids) = node
      ELSE /\ parent # None /\ parent = s.nodes[table].parent
           /\ IndexOf(kids, table) > 1
           /\ kids[IndexOf(kids, table) - 1] = node

\* an element that no table admits as a child, inserted under foster parenting
FosteredElement(s) == Call("_insert_element", FosterActive(s), <<"b", TRUE>>)

\* _append_text reconstructs the active formatting elements before it looks
\* for the place of the text: s with that done
FosterReconstructed(s) == Call("_reconstruct_active_formatting_elements", FosterActive(s), <<>>)

FosterTarget(s) == NameOf(s, Last(s.open_elements)) \in {"table", "tbody", "tfoot", "thead", "tr"}

\* a character inserted under foster parenting
FosteredText(s) == Call("_append_text", FosterReconstructed(s), X)

\* the node of r that holds the text inserted last: the last text node
\* created, or the text node the characters were added to
TextHolders(s, r) ==
  {n \in 1..Len(r.nodes) :
     /\ r.nodes[n].name = "#text"
     /\ IF n <= Len(s.nodes) THEN r.nodes[n].data = s.nodes[n].data \o X
        ELSE r.nodes[n].data = X}

\* C6: when foster parenting is active and the current node is table, tbody,
\* tfoot, thead or tr, an inserted element or text goes into the parent of
\* the nearest table on the stack, immediately before that table, unless a
\* template is more recent on the stack than that table, when it goes into
\* the content of the template; <table>A<td>B</td></table> has the text A
\* immediately before the table, and td inside an implied tbody and tr
C6_FosterParented ==
  /\ FosterCase(tb) =>
       /\ FosterPlaced(tb, FosteredElement(tb), NewId(FosteredElement(tb)))
       /\ FosterTarget(FosterReconstructed(tb)) =>
            \E n \in TextHolders(FosterReconstructed(tb), FosteredText(tb)) :
               FosterPlaced(FosterReconstructed(tb), FosteredText(tb), n)
  /\ ParsedDocument(DocTableText) =>
       Shape(tb, BodyOf(tb)) =
         El("body", <<Txt(<<"A">>),
                      El("table", <<El("tbody", <<El("tr", <<El("td", <<Txt(<<"B">>)>>)>>)>>)>>)>>)

\* C6 is exercised: the current node is a tr under a table that has a
\* template below it on the stack, with a text node before the table
C6_Witness ==
  /\ FosterCase(tb)
  /\ NameOf(tb, Last(tb.open_elements)) = "tr"
  /\ 0 < LastNamed(tb, {"template"}) /\ LastNamed(tb, {"template"}) < LastNamed(tb, {"table"})
  /\ tokenizer.buffer = StartTag(<<"t", "e", "m", "p", "l", "a", "t", "e">>)
                          \o StartTag(<<"t", "a", "b", "l", "e">>) \o StartTag(<<"t", "r">>)

(* ---------------------------------------------------------------------- *)
(* encoding.py                                                             *)
(* ---------------------------------------------------------------------- *)

\* bytes are integers 0..255, as the source has them; a byte string and a
\* label are sequences of them, and None, of which the source tests only the
\* truth value, is the empty one

DIGIT_CHARS == <<"0", "1", "2", "3", "4", "5", "6", "7", "8", "9">>

\* ord(c) of the characters written in this module
Ord(c) ==
  CASE c = "\t" -> 9 [] c = "\n" -> 10 [] c = "\f" -> 12 [] c = "\r" -> 13
    [] c = " " -> 32 [] c = "!" -> 33 [] c = "\"" -> 34 [] c = "'" -> 39
    [] c = "-" -> 45 [] c = "/" -> 47 [] c = ";" -> 59 [] c = "<" -> 60
    [] c = "=" -> 61 [] c = ">" -> 62
    [] \E i \in 1..10 : DIGIT_CHARS[i] = c -> 47 + IndexOf(DIGIT_CHARS, c)
    [] \E i \in 1..26 : ASCII_UPPER[i] = c -> 64 + IndexOf(ASCII_UPPER, c)
    [] \E i \in 1..26 : ASCII_LOWER[i] = c -> 96 + IndexOf(ASCII_LOWER, c)

\* b"..."
B(chars) == [i \in 1..Len(chars) |-> Ord(chars[i])]

_ASCII_WHITESPACE == {9, 10, 12, 13, 32}

\* b | 0x20 for 0x41 <= b <= 0x5A
_ascii_lower(b) == IF 65 <= b /\ b <= 90 THEN b + 32 ELSE b

_is_ascii_alpha(b) == 97 <= _ascii_lower(b) /\ _ascii_lower(b) <= 122

\* bytes.lower()
BytesLower(value) == [i \in 1..Len(value) |-> _ascii_lower(value[i])]

\* data[i], i counted from 0
ByteAt(data, i) == data[i + 1]

\* data[start:stop]
Slice(data, start, stop) ==
  IF stop > Len(data) THEN SubSeq(data, start + 1, Len(data)) ELSE SubSeq(data, start + 1, stop)

\* the least index from start on whose byte is in stops, len(data) if none:
\* where `while k < n and data[k] not in stops: k += 1` ends
ScanTo(data, start, stops) ==
  LET hits == {k \in start..(Len(data) - 1) : data[k + 1] \in stops}
  IN  IF hits = {} THEN (IF start > Len(data) THEN start ELSE Len(data))
      ELSE CHOOSE k \in hits : \A j \in hits : k <= j

\* the same for `while k < n and data[k] in skipped`
ScanPast(data, start, skipped) == ScanTo(data, start, (0..255) \ skipped)

\* data.find(sub, start): -1 if sub does not occur from start on
BytesFind(data, sub, start) ==
  LET hits == {k \in start..(Len(data) - Len(sub)) :
                 \A j \in 1..Len(sub) : data[k + j] = sub[j]}
  IN  IF hits = {} THEN -1 ELSE CHOOSE k \in hits : \A j \in hits : k <= j

_skip_ascii_whitespace(data, i) == ScanPast(data, i, _ASCII_WHITESPACE)

_strip_ascii_whitespace(value) ==
  LET inner == {k \in 1..Len(value) : value[k] \notin _ASCII_WHITESPACE}
      first == CHOOSE k \in inner : \A j \in inner : k <= j
      last == CHOOSE k \in inner : \A j \in inner : j <= k
  IN  IF inner = {} THEN <<>> ELSE SubSeq(value, first, last)

\* the labels normalize_encoding_label knows, each with its encoding
KNOWN_LABELS ==
  {
   <<B(<<"u", "t", "f", "-", "7">>), "windows-1252">>,
   <<B(<<"u", "t", "f", "7">>), "windows-1252">>,
   <<B(<<"x", "-", "u", "t", "f", "-", "7">>), "windows-1252">>,
   <<B(<<"u", "t", "f", "-", "8">>), "utf-8">>,
   <<B(<<"u", "t", "f", "8">>), "utf-8">>,
   <<B(<<"i", "s", "o", "-", "8", "8", "5", "9", "-", "1">>), "windows-1252">>,
   <<B(<<"i", "s", "o", "8", "8", "5", "9", "-", "1">>), "windows-1252">>,
   <<B(<<"l", "a", "t", "i", "n", "1">>), "windows-1252">>,
   <<B(<<"l", "a", "t", "i", "n", "-", "1">>), "windows-1252">>,
   <<B(<<"l", "1">>), "windows-1252">>,
   <<B(<<"c", "p", "8", "1", "9">>), "windows-1252">>,
   <<B(<<"i", "b", "m", "8", "1", "9">>), "windows-1252">>,
   <<B(<<"w", "i", "n", "d", "o", "w", "s", "-", "1", "2", "5", "2">>), "windows-1252">>,
   <<B(<<"w", "i", "n", "d", "o", "w", "s", "1", "2", "5", "2">>), "windows-1252">>,
   <<B(<<"c", "p", "1", "2", "5", "2">>), "windows-1252">>,
   <<B(<<"x", "-", "c", "p", "1", "2", "5", "2">>), "windows-1252">>,
   <<B(<<"i", "s", "o", "-", "8", "8", "5", "9", "-", "2">>), "iso-8859-2">>,
   <<B(<<"i", "s", "o", "8", "8", "5", "9", "-", "2">>), "iso-8859-2">>,
   <<B(<<"l", "a", "t", "i", "n", "2">>), "iso-8859-2">>,
   <<B(<<"l", "a", "t", "i", "n", "-", "2">>), "iso-8859-2">>,
   <<B(<<"e", "u", "c", "-", "j", "p">>), "euc-jp">>,
   <<B(<<"e", "u", "c", "j", "p">>), "euc-jp">>,
   <<B(<<"u", "t", "f", "-", "1", "6">>), "utf-16">>,
   <<B(<<"u", "t", "f", "1", "6">>), "utf-16">>,
   <<B(<<"u", "t", "f", "-", "1", "6", "l", "e">>), "utf-16le">>,
   <<B(<<"u", "t", "f", "1", "6", "l", "e">>), "utf-16le">>,
   <<B(<<"u", "t", "f", "-", "1", "6", "b", "e">>), "utf-16be">>,
   <<B(<<"u", "t", "f", "1", "6", "b", "e">>), "utf-16be">>
  }

\* the characters of ASCII that str.strip() removes
STR_WHITESPACE == {9, 10, 11, 12, 13, 28, 29, 30, 31, 32}

\* label.decode("ascii", "ignore")
DecodeAsciiIgnore(label) == SelectSeq(label, LAMBDA b : b < 128)

\* "" stands for None
normalize_encoding_label(label, is_bytes) ==
  LET decoded == IF is_bytes THEN DecodeAsciiIgnore(label) ELSE label
      inner == {k \in 1..Len(decoded) : decoded[k] \notin STR_WHITESPACE}
      first == CHOOSE k \in inner : \A j \in inner : k <= j
      last == CHOOSE k \in inner : \A j \in inner : j <= k
      stripped == IF inner = {} THEN <<>> ELSE SubSeq(decoded, first, last)
      s == BytesLower(stripped)
      known == {pair \in KNOWN_LABELS : pair[1] = s}
  IN  IF label = <<>> \/ s = <<>> \/ known = {} THEN ""
      ELSE (CHOOSE pair \in known : TRUE)[2]

_normalize_meta_declared_encoding(label) ==
  LET enc == normalize_encoding_label(label, TRUE)
  IN  IF enc \in {"utf-16", "utf-16le", "utf-16be", "utf-32", "utf-32le", "utf-32be"}
      THEN "utf-8" ELSE enc

\* (encoding, length of the BOM)
_sniff_bom(data) ==
  IF Len(data) >= 3 /\ SubSeq(data, 1, 3) = <<239, 187, 191>> THEN [enc |-> "utf-8", len |-> 3]
  ELSE IF Len(data) >= 2 /\ SubSeq(data, 1, 2) = <<255, 254>> THEN [enc |-> "utf-16le", len |-> 2]
  ELSE IF Len(data) >= 2 /\ SubSeq(data, 1, 2) = <<254, 255>> THEN [enc |-> "utf-16be", len |-> 2]
  ELSE [enc |-> "", len |-> 0]

_extract_charset_from_content(content_bytes) ==
  LET s == [k \in 1..Len(content_bytes) |->
              IF content_bytes[k] \in _ASCII_WHITESPACE THEN 32
              ELSE _ascii_lower(content_bytes[k])]
      n == Len(s)
      idx == BytesFind(s, B(<<"c", "h", "a", "r", "s", "e", "t">>), 0)
      i1 == ScanPast(s, idx + 7, _ASCII_WHITESPACE)
      i2 == ScanPast(s, i1 + 1, _ASCII_WHITESPACE)
      quoted == i2 < n /\ ByteAt(s, i2) \in {34, 39}
      start == IF quoted THEN i2 + 1 ELSE i2
      end == IF quoted THEN ScanTo(s, start, {ByteAt(s, i2)})
             ELSE ScanTo(s, start, _ASCII_WHITESPACE \cup {59})
  IN  IF content_bytes = <<>> \/ idx = -1 THEN <<>>
      ELSE IF i1 >= n \/ ByteAt(s, i1) # 61 THEN <<>>
      ELSE IF i2 >= n THEN <<>>
      ELSE IF quoted /\ end >= n THEN <<>>
      ELSE Slice(s, start, end)

max_non_comment == 1024

max_total_scan == 65536

\* the locals of _prescan_for_meta_charset and of sniff_html_encoding: at is
\* the place in the code, returned whether the prescan returned, meta_enc
\* what it returned, enc and bom_len the result of sniff_html_encoding
Sniffer(data, transport_encoding) ==
  [data |-> data, transport_encoding |-> transport_encoding, at |-> "sniff",
   i |-> 0, non_comment |-> 0, k |-> 0, quote |-> 0, start_i |-> 0, saw_gt |-> FALSE,
   charset |-> <<>>, http_equiv |-> <<>>, content |-> <<>>,
   returned |-> FALSE, meta_enc |-> "", enc |-> "", bom_len |-> 0]

\* sniff_html_encoding with the BOM looked at before the transport label
SniffBomFirst(f) ==
  LET transport == normalize_encoding_label(f.transport_encoding, FALSE)
      bom == _sniff_bom(f.data)
  IN  IF bom.enc # "" THEN [f EXCEPT !.enc = bom.enc, !.bom_len = bom.len, !.at = "sniffed"]
      ELSE IF transport # "" THEN [f EXCEPT !.enc = transport, !.at = "sniffed"]
      ELSE [f EXCEPT !.at = "prescan"]

\* sniff_html_encoding up to the call of _prescan_for_meta_charset
sniff_html_encoding(f) ==
  LET transport == normalize_encoding_label(f.transport_encoding, FALSE)
      bom == _sniff_bom(f.data)
  IN  IF transport # "" THEN [f EXCEPT !.enc = transport, !.at = "sniffed"]
      ELSE IF bom.enc # "" THEN [f EXCEPT !.enc = bom.enc, !.bom_len = bom.len, !.at = "sniffed"]
      ELSE [f EXCEPT !.at = "prescan"]

\* sniff_html_encoding after _prescan_for_meta_charset returned
SniffResult(f) ==
  [f EXCEPT !.enc = IF f.meta_enc # "" THEN f.meta_enc ELSE "windows-1252",
            !.at = "sniffed"]

\* _prescan_for_meta_charset returns enc
PrescanReturn(f, enc) == [f EXCEPT !.returned = TRUE, !.meta_enc = enc, !.at = "prescanned"]

\* one turn of the outer loop of _prescan_for_meta_charset, up to the inner
\* loop it enters
PrescanTurn(f) ==
  LET data == f.data
      n == Len(data)
      i == f.i
      j == i + 1
      end == BytesFind(data, B(<<"-", "-", ">">>), i + 4)
      name_end == ScanPast(data, j, {b \in 0..255 : _is_ascii_alpha(b)})
      tag_name == Slice(data, j, name_end)
      next == [f EXCEPT !.i = i + 1, !.non_comment = @ + 1]
      skip == [f EXCEPT !.k = i, !.quote = 0, !.at = "skip_tag"]
  IN  IF ~(i < n /\ i < max_total_scan /\ f.non_comment < max_non_comment)
      THEN PrescanReturn(f, "")
      ELSE IF ByteAt(data, i) # 60 THEN next
      ELSE IF i + 3 < n /\ Slice(data, i + 1, i + 4) = B(<<"!", "-", "-">>)
      THEN IF end = -1 THEN PrescanReturn(f, "") ELSE [f EXCEPT !.i = end + 3]
      ELSE IF j < n /\ ByteAt(data, j) = 47 THEN skip
      ELSE IF j >= n \/ ~_is_ascii_alpha(ByteAt(data, j)) THEN next
      ELSE IF BytesLower(tag_name) # B(<<"m", "e", "t", "a">>) THEN skip
      ELSE [f EXCEPT !.k = name_end, !.saw_gt = FALSE, !.start_i = i, !.charset = <<>>,
                     !.http_equiv = <<>>, !.content = <<>>, !.at = "attributes"]

\* one turn of the loop that skips an end tag or a tag other than meta
SkipTagTurn(f) ==
  LET data == f.data
      k == f.k
      ch == ByteAt(data, k)
      over == [f EXCEPT !.i = f.k, !.at = "prescan"]
  IN  IF ~(k < Len(data) /\ k < max_total_scan /\ f.non_comment < max_non_comment) THEN over
      ELSE IF f.quote = 0 /\ ch = 62
      THEN [f EXCEPT !.i = k + 1, !.k = k + 1, !.non_comment = @ + 1, !.at = "prescan"]
      ELSE [f EXCEPT !.k = k + 1, !.non_comment = @ + 1,
                     !.quote = IF f.quote = 0 THEN (IF ch \in {34, 39} THEN ch ELSE 0)
                               ELSE IF ch = f.quote THEN 0 ELSE f.quote]

\* what follows the loop over the attributes of a meta tag
AfterAttributes(f) ==
  LET declared == _normalize_meta_declared_encoding(f.charset)
      extracted == _extract_charset_from_content(f.content)
      pragma == _normalize_meta_declared_encoding(extracted)
      on == [f EXCEPT !.i = f.k, !.non_comment = @ + (f.k - f.start_i), !.at = "prescan"]
  IN  IF ~f.saw_gt THEN [f EXCEPT !.i = @ + 1, !.non_comment = @ + 1, !.at = "prescan"]
      ELSE IF f.charset # <<>> /\ declared # "" THEN PrescanReturn(f, declared)
      ELSE IF /\ f.http_equiv # <<>>
              /\ BytesLower(f.http_equiv) = B(<<"c", "o", "n", "t", "e", "n", "t", "-", "t", "y", "p", "e">>)
              /\ f.content # <<>> /\ extracted # <<>> /\ pragma # ""
      THEN PrescanReturn(f, pragma)
      ELSE on

\* one turn of the loop over the attributes of a meta tag, with what follows
\* the loop when the turn ends it
AttributeTurn(f) ==
  LET data == f.data
      n == Len(data)
      k == f.k
      ch == ByteAt(data, k)
      name_end == ScanTo(data, k, _ASCII_WHITESPACE \cup {61, 62, 47, 60})
      attr_name == BytesLower(Slice(data, k, name_end))
      after_name == _skip_ascii_whitespace(data, name_end)
      has_value == after_name < n /\ ByteAt(data, after_name) = 61
      val_at == _skip_ascii_whitespace(data, after_name + 1)
      quoted == ByteAt(data, val_at) \in {34, 39}
      end_quote == BytesFind(data, <<ByteAt(data, val_at)>>, val_at + 1)
      bare_end == ScanTo(data, val_at, _ASCII_WHITESPACE \cup {62, 60})
      value == IF ~has_value THEN <<>>
               ELSE IF quoted THEN Slice(data, val_at + 1, end_quote)
               ELSE Slice(data, val_at, bare_end)
      k_after == IF ~has_value THEN after_name
                 ELSE IF quoted THEN end_quote + 1 ELSE bare_end
      assigned == [f EXCEPT !.k = k_after,
                            !.charset = IF attr_name = B(<<"c", "h", "a", "r", "s", "e", "t">>)
                                        THEN _strip_ascii_whitespace(value) ELSE @,
                            !.http_equiv = IF attr_name = B(<<"h", "t", "t", "p", "-", "e", "q", "u", "i", "v">>)
                                           THEN value ELSE @,
                            !.content = IF attr_name = B(<<"c", "o", "n", "t", "e", "n", "t">>)
                                        THEN value ELSE @]
  IN  IF ~(k < n /\ k < max_total_scan) THEN AfterAttributes(f)
      ELSE IF ch = 62 THEN AfterAttributes([f EXCEPT !.saw_gt = TRUE, !.k = k + 1])
      ELSE IF ch = 60 THEN AfterAttributes(f)
      ELSE IF ch \in _ASCII_WHITESPACE \/ ch = 47 THEN [f EXCEPT !.k = k + 1]
      ELSE IF has_value /\ val_at >= n THEN AfterAttributes([f EXCEPT !.k = val_at])
      ELSE IF has_value /\ quoted /\ end_quote = -1
      THEN AfterAttributes([f EXCEPT !.k = val_at + 1, !.i = @ + 1, !.non_comment = @ + 1,
                                     !.charset = <<>>, !.http_equiv = <<>>, !.content = <<>>,
                                     !.saw_gt = FALSE])
      ELSE assigned

(* ---------------------------------------------------------------------- *)
(* Encoding sniffing                                                       *)
(* ---------------------------------------------------------------------- *)

\* <meta charset=euc-jp>
MetaCharset ==
  B(<<"<", "m", "e", "t", "a", " ", "c", "h", "a", "r", "s", "e", "t", "=", "e", "u", "c", "-", "j", "p", ">">>)

\* <meta charset="utf-16">
MetaUtf16 ==
  B(<<"<", "m", "e", "t", "a", " ", "c", "h", "a", "r", "s", "e", "t", "=", "\"", "u", "t", "f", "-", "1", "6", "\"", ">">>)

\* <META http-equiv="Content-Type" content="text/html; charset=iso-8859-2">
MetaPragma ==
  B(<<"<", "M", "E", "T", "A", " ", "h", "t", "t", "p", "-", "e", "q", "u", "i", "v", "=", "\"", "C", "o", "n", "t", "e", "n", "t", "-", "T", "y", "p", "e", "\"", " ", "c", "o", "n", "t", "e", "n", "t", "=", "\"", "t", "e", "x", "t", "/", "h", "t", "m", "l", ";", " ", "c", "h", "a", "r", "s", "e", "t", "=", "i", "s", "o", "-", "8", "8", "5", "9", "-", "2", "\"", ">">>)

\* <!-- c --><meta charset=utf8>
MetaAfterComment ==
  B(<<"<", "!", "-", "-", " ", "c", " ", "-", "-", ">", "<", "m", "e", "t", "a", " ", "c", "h", "a", "r", "s", "e", "t", "=", "u", "t", "f", "8", ">">>)

\* </p a=">"><meta charset=latin2>
MetaAfterEndTag ==
  B(<<"<", "/", "p", " ", "a", "=", "\"", ">", "\"", ">", "<", "m", "e", "t", "a", " ", "c", "h", "a", "r", "s", "e", "t", "=", "l", "a", "t", "i", "n", "2", ">">>)

\* <p title="<meta charset=utf-8>"><meta charset='euc-jp'>
MetaInAttribute ==
  B(<<"<", "p", " ", "t", "i", "t", "l", "e", "=", "\"", "<", "m", "e", "t", "a", " ", "c", "h", "a", "r", "s", "e", "t", "=", "u", "t", "f", "-", "8", ">", "\"", ">", "<", "m", "e", "t", "a", " ", "c", "h", "a", "r", "s", "e", "t", "=", "'", "e", "u", "c", "-", "j", "p", "'", ">">>)

\* <meta charset=foo><meta charset=utf-8>
MetaUnknownFirst ==
  B(<<"<", "m", "e", "t", "a", " ", "c", "h", "a", "r", "s", "e", "t", "=", "f", "o", "o", ">", "<", "m", "e", "t", "a", " ", "c", "h", "a", "r", "s", "e", "t", "=", "u", "t", "f", "-", "8", ">">>)

\* <meta charset="utf-8
MetaUnclosedQuote ==
  B(<<"<", "m", "e", "t", "a", " ", "c", "h", "a", "r", "s", "e", "t", "=", "\"", "u", "t", "f", "-", "8">>)

\* <meta charset=
MetaNoValue ==
  B(<<"<", "m", "e", "t", "a", " ", "c", "h", "a", "r", "s", "e", "t", "=">>)

\* x<1<meta content=x charset = utf-8 />
MetaSpaced ==
  B(<<"x", "<", "1", "<", "m", "e", "t", "a", " ", "c", "o", "n", "t", "e", "n", "t", "=", "x", " ", "c", "h", "a", "r", "s", "e", "t", " ", "=", " ", "u", "t", "f", "-", "8", " ", "/", ">">>)

\* <!-- <meta charset=utf-8>
MetaInComment ==
  B(<<"<", "!", "-", "-", " ", "<", "m", "e", "t", "a", " ", "c", "h", "a", "r", "s", "e", "t", "=", "u", "t", "f", "-", "8", ">">>)

\* charset=utf-8>
CharsetUtf8 == B(<<"c", "h", "a", "r", "s", "e", "t", "=", "u", "t", "f", "-", "8", ">">>)

MetaUtf8 == B(<<"<", "m", "e", "t", "a", " ", "c", "h", "a", "r", "s", "e", "t", "=", "u", "t", "f", "-", "8", ">">>)

ShortBodies ==
  {<<>>, MetaCharset, MetaUtf16, MetaPragma, MetaAfterComment, MetaAfterEndTag,
   MetaInAttribute, MetaUnknownFirst, MetaUnclosedQuote, MetaNoValue, MetaSpaced,
   MetaInComment}

TRANSPORT_UTF8 == B(<<" ", "U", "T", "F", "-", "8", " ">>)

TRANSPORT_LATIN1 == B(<<"l", "a", "t", "i", "n", "1">>)

TRANSPORT_FOO == B(<<"f", "o", "o">>)

TRANSPORT_UTF7 == B(<<"u", "t", "f", "-", "7">>)

TRANSPORT_UTF16BE == B(<<"U", "T", "F", "-", "1", "6", "B", "E", "\n">>)

\* nothing, the three byte order marks, and the first two bytes of the first
BOMS == {<<>>, <<239, 187, 191>>, <<255, 254>>, <<254, 255>>, <<239, 187>>}

\* no label, labels with blanks and capitals around a known name, an
\* unknown name, utf-7
TransportLabels ==
  {<<>>, TRANSPORT_UTF8, TRANSPORT_LATIN1, TRANSPORT_FOO, TRANSPORT_UTF7, TRANSPORT_UTF16BE, B(<<" ">>)}

\* n times the byte b
Fill(n, b) == [i \in 1..n |-> b]

\* inputs that reach past the two limits of the prescan: text, an attribute
\* name, a quoted value, a tag that is no meta and a comment, each longer
\* than max_non_comment, and a quoted value longer than max_total_scan
LongBodies ==
  {Fill(max_non_comment - 1, Ord("x")) \o MetaUtf8,
   Fill(max_non_comment, Ord("x")) \o MetaUtf8,
   B(<<"<", "m", "e", "t", "a", " ">>) \o Fill(max_non_comment + 76, Ord("a")),
   B(<<"<", "m", "e", "t", "a", " ", "a", "=", "\"">>) \o Fill(max_non_comment + 76, Ord("x"))
     \o B(<<"\"", " ">>) \o CharsetUtf8,
   B(<<"<", "b", " ">>) \o Fill(max_non_comment + 76, Ord("x")) \o B(<<">">>) \o MetaUtf8,
   B(<<"<", "!", "-", "-">>) \o Fill(max_non_comment + max_non_comment, Ord("x"))
     \o B(<<"-", "-", ">">>) \o MetaUtf8,
   B(<<"<", "m", "e", "t", "a", " ", "a", "=", "\"">>) \o Fill(max_total_scan + 100, Ord("x"))
     \o B(<<"\"", " ">>) \o CharsetUtf8}

SniffInputs ==
  {[data |-> bom \o body, transport_encoding |-> label] :
     bom \in BOMS, body \in ShortBodies, label \in TransportLabels}
    \cup {[data |-> body, transport_encoding |-> <<>>] : body \in LongBodies}

\* decode_html(data, transport_encoding) called sniff_html_encoding
InitSniff ==
  /\ \E input \in SniffInputs : parser = Sniffer(input.data, input.transport_encoding)
  /\ phase = "sniffing"
  /\ tb = None
  /\ tokenizer = None
  /\ fed = 0
  /\ alphabet = {}

SniffStart ==
  /\ phase = "sniffing" /\ parser.at = "sniff"
  /\ parser' = sniff_html_encoding(parser)
  /\ UNCHANGED <<tb, phase, fed, alphabet, tokenizer>>

PrescanStep ==
  /\ phase = "sniffing" /\ parser.at = "prescan"
  /\ parser' = PrescanTurn(parser)
  /\ UNCHANGED <<tb, phase, fed, alphabet, tokenizer>>

SkipTagStep ==
  /\ phase = "sniffing" /\ parser.at = "skip_tag"
  /\ parser' = SkipTagTurn(parser)
  /\ UNCHANGED <<tb, phase, fed, alphabet, tokenizer>>

AttributeStep ==
  /\ phase = "sniffing" /\ parser.at = "attributes"
  /\ parser' = AttributeTurn(parser)
  /\ UNCHANGED <<tb, phase, fed, alphabet, tokenizer>>

SniffFinish ==
  /\ phase = "sniffing" /\ parser.at = "prescanned"
  /\ parser' = SniffResult(parser)
  /\ UNCHANGED <<tb, phase, fed, alphabet, tokenizer>>

NextSniff == SniffStart \/ PrescanStep \/ SkipTagStep \/ AttributeStep \/ SniffFinish

SpecSniff == InitSniff /\ [][NextSniff]_vars

\* the byte order mark data opens with, as the HTML standard lists them
LeadingBom(data) ==
  IF Len(data) >= 3 /\ data[1] = 239 /\ data[2] = 187 /\ data[3] = 191 THEN <<"utf-8", 3>>
  ELSE IF Len(data) >= 2 /\ data[1] = 255 /\ data[2] = 254 THEN <<"utf-16le", 2>>
  ELSE IF Len(data) >= 2 /\ data[1] = 254 /\ data[2] = 255 THEN <<"utf-16be", 2>>
  ELSE <<"", 0>>

Sniffed == phase = "sniffing" /\ parser.at = "sniffed"

\* the transport label after normalization
Transport == normalize_encoding_label(parser.transport_encoding, FALSE)

\* C7: the encoding chosen is that of the transport label if its
\* normalization is not empty, whatever the BOM and the meta declarations
\* are; otherwise that of the leading BOM, with its length; otherwise what the
\* meta prescan returned; otherwise windows-1252
C7_Precedence ==
  Sniffed =>
    IF Transport # ""
    THEN parser.enc = Transport /\ parser.bom_len = 0 /\ ~parser.returned
    ELSE IF LeadingBom(parser.data)[1] # ""
    THEN <<parser.enc, parser.bom_len>> = LeadingBom(parser.data) /\ ~parser.returned
    ELSE /\ parser.returned /\ parser.bom_len = 0
         /\ parser.enc = IF parser.meta_enc # "" THEN parser.meta_enc ELSE "windows-1252"

\* C7 is exercised: the label latin1 won over a UTF-8 BOM and a meta
\* declaration of euc-jp
C7_Witness ==
  /\ Sniffed
  /\ parser.transport_encoding = TRANSPORT_LATIN1
  /\ parser.data = <<239, 187, 191>> \o MetaCharset
  /\ parser.enc = "windows-1252"

\* the prescan is under way or has returned
Scanning == phase = "sniffing" /\ parser.at \in {"prescan", "skip_tag", "attributes", "prescanned"}

CommentFree(data) == BytesFind(data, B(<<"<", "!", "-", "-">>), 0) = -1

\* C8: the prescan never goes past offset max_total_scan, and in an input
\* without comments never past max_non_comment bytes, in its outer loop and
\* in the inner loops over a tag, the attributes, an attribute name and a
\* quoted value
C8_PrescanBounded ==
  Scanning =>
    /\ parser.i <= max_total_scan /\ parser.k <= max_total_scan
    /\ CommentFree(parser.data) => parser.i <= max_non_comment /\ parser.k <= max_non_comment

====
